---- MODULE Spec2Model ----
(***************************************************************************)
(* Verification model of the obs-cli Obsidian plugins:                     *)
(*   - obsidian-metadata-api  (SQLiteMetadataDB: the JSON index store)      *)
(*   - obsidian-dataview-bridge (DataviewQueryBridge: the query bridge)     *)
(* Both plugins persist to the same file, <configDir>/plugins/             *)
(* obsidian-metadata-api/metadata.json, which is the variable `file`.      *)
(* Every `await` of the TypeScript code is a step boundary: an action is   *)
(* the synchronous code between two awaits together with the file I/O it   *)
(* issues.                                                                 *)
(***************************************************************************)
EXTENDS Integers, Sequences, FiniteSets, TLC

VARIABLES
    file,      \* content of metadata.json (a JSON object: field name -> value)
    now,       \* the wall clock (new Date()), in units of 12 hours
    hpc,       \* per event handler: position in updateNote / deleteNote / updateTags
    hdb,       \* per event handler: the local `db` object of the running method
    harg,      \* per event handler: the operation it runs and its arguments
    round,     \* history: the index operations started since the store was last quiescent
    bpc,       \* position of the poll callback checkAndExecuteDataviewQueries
    bdb,       \* the poll callback's local `db`
    cdb,       \* local `db` of the checkDataviewAvailability call made by the poll
    bq,        \* the poll callback's pendingQueries still to execute
    dataview,  \* the Dataview plugin as seen through app.plugins.plugins.dataview
    cycle,     \* history: what the running / last completed poll cycle saw and did
    vault,     \* the markdown files of the vault with their cached metadata, in
               \* the order getMarkdownFiles returns them
    rpc,       \* position of the running rebuildDatabase call
    rq,        \* rebuildDatabase: the files of its loop still to index
    rdb,       \* rebuildDatabase: the local `db` of the updateNote / updateTags it runs
    rebuilt,   \* history: the rebuilds completed in a row and what they left in the file
    fault,     \* history: the last operation that met a failing read or write
    timers     \* the bridge's setInterval and its setTimeout of 2000 ms, the local
               \* `db` of the delayed checkDataviewAvailability, and whether
               \* close() has returned

vars == <<file, now, hpc, hdb, harg, round, bpc, bdb, cdb, bq, dataview, cycle,
          vault, rpc, rq, rdb, rebuilt, fault, timers>>

indexVars == <<hpc, hdb, harg, round>>
bridgeVars == <<bpc, bdb, cdb, bq, dataview, cycle>>
rebuildVars == <<vault, rpc, rq, rdb, rebuilt>>

----------------------------------------------------------------------------
(* Bounds of the model *)

\* the clock stops advancing at MaxTime (units of 12 hours)
MaxTime == 3

\* at most MaxOverlap index operations start before the store is quiescent again
MaxOverlap == 2

\* OneDay is 24 * 60 * 60 * 1000 ms, i.e. 2 clock units of 12 hours
OneDay == 2

----------------------------------------------------------------------------
(* JSON helpers: a JSON object is a function from its keys *)

Has(obj, k) == k \in DOMAIN obj

\* obj[k] = v, adding the key when it is not there yet
Put(obj, k, v) == [x \in (DOMAIN obj) \cup {k} |-> IF x = k THEN v ELSE obj[x]]

\* delete obj[k]
Del(obj, k) == [x \in (DOMAIN obj) \ {k} |-> obj[x]]

EmptyObj == [x \in {} |-> 0]

\* (m[k] || 0) + 1
Inc(m, k) == Put(m, k, (IF Has(m, k) THEN m[k] ELSE 0) + 1)

RECURSIVE SeqSum(_)
SeqSum(s) == IF s = <<>> THEN 0 ELSE Head(s) + SeqSum(Tail(s))

Range(s) == {s[i] : i \in DOMAIN s}

\* Array.prototype.includes
Includes(s, x) == x \in Range(s)

\* faulty variant of Dedup: duplicates are kept
DedupNot(s) == s

\* [...new Set(s)]: duplicates removed, first occurrences kept in order
RECURSIVE Dedup(_)
Dedup(s) ==
    IF s = <<>> THEN <<>>
    ELSE LET front == Dedup(SubSeq(s, 1, Len(s) - 1))
             last == s[Len(s)]
         IN IF Includes(front, last) THEN front ELSE Append(front, last)

----------------------------------------------------------------------------
(* The host: files of the vault and their cached metadata *)

\* TFile objects delivered by the host: path and file.parent?.path
FileA == [path |-> "a.md", parent |-> ""]
FileB == [path |-> "root/b.md", parent |-> "root"]
Files == {FileA, FileB}

\* app.metadataCache.getFirstLinkpathDest(link, sourcePath): the resolved
\* file's path, or "" for null (an unresolved reference)
LinkDest(link) ==
    CASE link = "a" -> "a.md"
      [] link = "b" -> "root/b.md"
      [] link = "c" -> "c.md"
      [] link = "pic" -> "pic.png"
      [] OTHER -> ""

\* CachedMetadata values the host may deliver. tags are inline tags with
\* their leading marker, as characters; fmTags is frontmatter.tags; listItems
\* carry the checkbox marker in `task` ("-" stands for item.task undefined).
NoFmTags == [kind |-> "none", val |-> <<>>]

\* getFileCache returned null, or a note without any metadata
MetaNull == [tags |-> <<>>, fmTags |-> NoFmTags, links |-> <<>>, embeds |-> <<>>,
             listItems |-> <<>>]

MetaOne == [tags |-> << <<"#", "y">> >>,
            fmTags |-> [kind |-> "array", val |-> << <<"x">>, <<"y">> >>],
            links |-> <<"b", "ghost", "c">>,
            embeds |-> <<"pic">>,
            listItems |-> <<[task |-> "x", line |-> 0], [task |-> " ", line |-> 1],
                            [task |-> "-", line |-> 2], [task |-> " ", line |-> 3]>>]

MetaTwo == [tags |-> << <<"#", "x">>, <<"#", "x">> >>,
            fmTags |-> [kind |-> "string", val |-> <<"x">>],
            links |-> <<"c", "c", "a">>,
            embeds |-> <<"ghost", "pic", "pic">>,
            listItems |-> <<[task |-> " ", line |-> 4]>>]

Metas == {MetaNull, MetaOne, MetaTwo}

----------------------------------------------------------------------------
(* SQLiteMetadataDB: pure parts *)

\* faulty variant of IndexDefault: the time is also stored as a note count
IndexDefaultStamped(t) ==
    [notes |-> <<>>, tags |-> EmptyObj, links |-> EmptyObj, folders |-> EmptyObj,
     stats |-> [totalNotes |-> t, totalTags |-> 0, totalLinks |-> 0,
                totalEmbeds |-> 0, totalTasks |-> 0, totalIncompleteTasks |-> 0,
                lastUpdated |-> t]]

\* defaultData of initializeJsonDb, also the cleared db of rebuildDatabase
IndexDefault(t) ==
    [notes |-> <<>>, tags |-> EmptyObj, links |-> EmptyObj, folders |-> EmptyObj,
     stats |-> [totalNotes |-> 0, totalTags |-> 0, totalLinks |-> 0,
                totalEmbeds |-> 0, totalTasks |-> 0, totalIncompleteTasks |-> 0,
                lastUpdated |-> t]]

\* db.notes is a JSON object in insertion order: a sequence of records, each
\* under its own path as key
NoteKeys(notes) == {notes[i].path : i \in DOMAIN notes}

NoteAt(notes, p) == notes[CHOOSE i \in DOMAIN notes : notes[i].path = p]

\* faulty variant of SetNote: the tags of a record that is replaced are kept
SetNoteMerged(notes, key, rec) ==
    IF key \in NoteKeys(notes)
    THEN [i \in DOMAIN notes |->
             IF notes[i].path = key THEN [rec EXCEPT !.tags = notes[i].tags]
             ELSE notes[i]]
    ELSE Append(notes, rec)

\* db.notes[key] = rec: replaces in place, or appends a new key
SetNote(notes, key, rec) ==
    IF key \in NoteKeys(notes)
    THEN [i \in DOMAIN notes |-> IF notes[i].path = key THEN rec ELSE notes[i]]
    ELSE Append(notes, rec)

\* faulty variant of DeleteKey: with no such key the first note is deleted
DeleteKeyOrFirst(notes, key) ==
    IF key \in NoteKeys(notes) \/ notes = <<>>
    THEN SelectSeq(notes, LAMBDA n : n.path # key)
    ELSE Tail(notes)

\* faulty variant of DeleteKey: nothing is deleted
DeleteKeyNot(notes, key) == notes

\* delete db.notes[key]
DeleteKey(notes, key) == SelectSeq(notes, LAMBDA n : n.path # key)

\* tag.tag.substring(1) for every inline tag
RECURSIVE InlineTags(_)
InlineTags(ts) ==
    IF ts = <<>> THEN <<>> ELSE <<Tail(Head(ts))>> \o InlineTags(Tail(ts))

\* frontmatter.tags: an array is spread, a string is pushed, anything else ignored
FrontmatterTags(fm) ==
    CASE fm.kind = "array" -> fm.val
      [] fm.kind = "string" -> <<fm.val>>
      [] OTHER -> <<>>

\* resolved targets of links / embeds, unresolved references dropped
RECURSIVE Resolved(_)
Resolved(ls) ==
    IF ls = <<>> THEN <<>>
    ELSE (IF LinkDest(Head(ls)) # "" THEN <<LinkDest(Head(ls))>> ELSE <<>>)
         \o Resolved(Tail(ls))

\* faulty variant of ExtractTasks: every list item is taken for a task
ExtractTasksAll(items) ==
    [i \in DOMAIN items |-> [completed |-> items[i].task # " ", line |-> items[i].line + 1]]

\* the tasks of the checkbox list items
RECURSIVE ExtractTasks(_)
ExtractTasks(items) ==
    IF items = <<>> THEN <<>>
    ELSE (IF Head(items).task # "-"
          THEN <<[completed |-> Head(items).task # " ", line |-> Head(items).line + 1]>>
          ELSE <<>>)
         \o ExtractTasks(Tail(items))

\* the record updateNote stores under file.path
NoteRecord(f, metadata) ==
    [path |-> f.path,
     tags |-> Dedup(InlineTags(metadata.tags) \o FrontmatterTags(metadata.fmTags)),
     outlinks |-> Resolved(metadata.links),
     embeds |-> Resolved(metadata.embeds),
     tasks |-> ExtractTasks(metadata.listItems),
     folder |-> f.parent]

----------------------------------------------------------------------------
(* SQLiteMetadataDB.updateTags: the aggregate recomputation *)

\* tagCounts after the forEach over one note's tags
RECURSIVE CountTags(_, _)
CountTags(counts, tags) ==
    IF tags = <<>> THEN counts ELSE CountTags(Inc(counts, Head(tags)), Tail(tags))

\* tagCounts over Object.values(db.notes)
RECURSIVE TagCounts(_, _)
TagCounts(counts, notes) ==
    IF notes = <<>> THEN counts
    ELSE TagCounts(CountTags(counts, Head(notes).tags), Tail(notes))

\* note.folder || 'root'
FolderKey(note) == IF note.folder = "" THEN "root" ELSE note.folder

\* folderCounts over Object.values(db.notes)
RECURSIVE FolderCounts(_, _)
FolderCounts(counts, notes) ==
    IF notes = <<>> THEN counts
    ELSE FolderCounts(Inc(counts, FolderKey(Head(notes))), Tail(notes))

NoLinks == [outlinks |-> <<>>, backlinks |-> <<>>]

\* links[k] created when missing
EnsureLink(links, k) == IF Has(links, k) THEN links ELSE Put(links, k, NoLinks)

\* faulty variant of AddBacklinks: backlinks are recorded only for targets that
\* have a links entry already
RECURSIVE AddBacklinksKnownOnly(_, _, _)
AddBacklinksKnownOnly(links, src, targets) ==
    IF targets = <<>> THEN links
    ELSE LET t == Head(targets)
             l2 == IF ~Has(links, t) \/ Includes(links[t].backlinks, src) THEN links
                   ELSE [links EXCEPT ![t].backlinks = Append(@, src)]
         IN AddBacklinksKnownOnly(l2, src, Tail(targets))

\* faulty variant of AddBacklinks: the test on includes(note.path) is missing
RECURSIVE AddBacklinksEvery(_, _, _)
AddBacklinksEvery(links, src, targets) ==
    IF targets = <<>> THEN links
    ELSE LET t == Head(targets)
             l1 == EnsureLink(links, t)
         IN AddBacklinksEvery([l1 EXCEPT ![t].backlinks = Append(@, src)], src, Tail(targets))

\* the inner forEach over note.outlinks: push src to each target's backlinks
\* unless it is included already
RECURSIVE AddBacklinks(_, _, _)
AddBacklinks(links, src, targets) ==
    IF targets = <<>> THEN links
    ELSE LET t == Head(targets)
             l1 == EnsureLink(links, t)
             l2 == IF Includes(l1[t].backlinks, src) THEN l1
                   ELSE [l1 EXCEPT ![t].backlinks = Append(@, src)]
         IN AddBacklinks(l2, src, Tail(targets))

\* the links object over Object.values(db.notes)
RECURSIVE BuildLinks(_, _)
BuildLinks(links, notes) ==
    IF notes = <<>> THEN links
    ELSE LET n == Head(notes)
             l1 == [EnsureLink(links, n.path) EXCEPT ![n.path].outlinks = n.outlinks]
         IN BuildLinks(AddBacklinks(l1, n.path, n.outlinks), Tail(notes))

\* faulty variant of Incomplete: the filter on !task.completed is missing
IncompleteAll(tasks) == Len(tasks)

\* number of tasks with !task.completed
Incomplete(tasks) == Len(SelectSeq(tasks, LAMBDA t : ~t.completed))

\* faulty variant of FreshLinks: the links of the file are kept and added to
FreshLinksKept(db) == db.links

\* `const links = {}`: the link graph is built from nothing
FreshLinks(db) == EmptyObj

\* the db object updateTags writes back, from the db object it read
UpdateTagsDb(db) ==
    LET tagCounts == TagCounts(EmptyObj, db.notes)
        folderCounts == FolderCounts(EmptyObj, db.notes)
        links == BuildLinks(FreshLinks(db), db.notes)
        lens(F(_)) == [i \in DOMAIN db.notes |-> F(db.notes[i])]
        outl(n) == Len(n.outlinks)
        embl(n) == Len(n.embeds)
        taskl(n) == Len(n.tasks)
        incl(n) == Incomplete(n.tasks)
    IN [db EXCEPT
          !.tags = tagCounts,
          !.folders = folderCounts,
          !.links = links,
          !.stats = [@ EXCEPT
                       !.totalTags = Cardinality(DOMAIN tagCounts),
                       !.totalLinks = SeqSum(lens(outl)),
                       !.totalEmbeds = SeqSum(lens(embl)),
                       !.totalTasks = SeqSum(lens(taskl)),
                       !.totalIncompleteTasks = SeqSum(lens(incl))]]

\* faulty variant of UpdateNoteDb: db.notes is replaced by an object holding the
\* new record alone
UpdateNoteDbFresh(db, f, metadata, t) ==
    LET notes == <<NoteRecord(f, metadata)>>
    IN [db EXCEPT !.notes = notes,
                  !.stats = [@ EXCEPT !.totalNotes = Len(notes), !.lastUpdated = t]]

\* the db object updateNote writes, from the db object it read
UpdateNoteDb(db, f, metadata, t) ==
    LET notes == SetNote(db.notes, f.path, NoteRecord(f, metadata))
    IN [db EXCEPT !.notes = notes,
                  !.stats = [@ EXCEPT !.totalNotes = Len(notes), !.lastUpdated = t]]

\* faulty variant of DeleteNoteDb: the notes are counted before the delete
DeleteNoteDbCountFirst(db, path, t) ==
    [db EXCEPT !.notes = DeleteKey(db.notes, path),
               !.stats = [@ EXCEPT !.totalNotes = Len(db.notes), !.lastUpdated = t]]

\* the db object deleteNote writes, from the db object it read
DeleteNoteDb(db, path, t) ==
    LET notes == DeleteKey(db.notes, path)
    IN [db EXCEPT !.notes = notes,
                  !.stats = [@ EXCEPT !.totalNotes = Len(notes), !.lastUpdated = t]]

----------------------------------------------------------------------------
(* The event handlers of MetadataAPIPlugin running SQLiteMetadataDB methods *)

\* the callbacks the host may have in flight at once
Handlers == {1, 2}

NoDb == EmptyObj
NoArg == [op |-> "none"]

Quiescent == \A h \in Handlers : hpc[h] = "idle"

\* history: no rebuild has completed since the last event handler or vault change
NoRebuilt == [count |-> 0, start |-> NoDb, doc |-> NoDb, before |-> NoDb]

\* history: no read or write has failed
NoFault == [op |-> "none", found |-> "none", error |-> "none", n |-> 0]

\* history: a handler starts operation `a`
Started(a) ==
    IF Quiescent THEN [base |-> file, ops |-> <<a>>, stored |-> ""]
    ELSE [round EXCEPT !.ops = Append(@, a)]

\* the host delivers an event to a free callback, which runs up to its first await
CanStart(h) ==
    /\ hpc[h] = "idle"
    /\ Quiescent \/ Len(round.ops) < MaxOverlap

\* 'modify' / 'changed' / delayed 'create' handler: updateNote(file, metadata)
\* up to `await this.readDb()`
UpdateNoteRead(h, f, metadata) ==
    /\ CanStart(h)
    /\ hpc' = [hpc EXCEPT ![h] = "noteRead"]
    /\ hdb' = [hdb EXCEPT ![h] = file]
    /\ harg' = [harg EXCEPT ![h] = [op |-> "updateNote", file |-> f, metadata |-> metadata]]
    /\ round' = Started([op |-> "updateNote", path |-> f.path])
    /\ rebuilt' = NoRebuilt
    /\ UNCHANGED <<file, now, bridgeVars, vault, fault, timers, rpc, rq, rdb>>

\* 'delete' handler: deleteNote(path) up to `await this.readDb()`
DeleteNoteRead(h, path) ==
    /\ CanStart(h)
    /\ hpc' = [hpc EXCEPT ![h] = "noteRead"]
    /\ hdb' = [hdb EXCEPT ![h] = file]
    /\ harg' = [harg EXCEPT ![h] = [op |-> "deleteNote", path |-> path]]
    /\ round' = Started([op |-> "deleteNote", path |-> path])
    /\ rebuilt' = NoRebuilt
    /\ UNCHANGED <<file, now, bridgeVars, vault, fault, timers, rpc, rq, rdb>>

\* the path an operation is about
ArgPath(a) == IF a.op = "updateNote" THEN a.file.path ELSE a.path

\* the db object the running method writes with its first writeDb
FirstWriteDb(h) ==
    IF harg[h].op = "updateNote"
    THEN UpdateNoteDb(hdb[h], harg[h].file, harg[h].metadata, now)
    ELSE DeleteNoteDb(hdb[h], harg[h].path, now)

\* updateNote / deleteNote from the read to `await this.writeDb(db)`
NoteWrite(h) ==
    /\ hpc[h] = "noteRead"
    /\ file' = FirstWriteDb(h)
    /\ hpc' = [hpc EXCEPT ![h] = "noteWritten"]
    /\ hdb' = [hdb EXCEPT ![h] = NoDb]
    /\ round' = [round EXCEPT !.stored = ArgPath(harg[h])]
    /\ UNCHANGED <<now, harg, bridgeVars, rebuildVars, fault, timers>>

\* updateTags up to `await this.readDb()`
UpdateTagsRead(h) ==
    /\ hpc[h] = "noteWritten"
    /\ hdb' = [hdb EXCEPT ![h] = file]
    /\ hpc' = [hpc EXCEPT ![h] = "tagsRead"]
    /\ UNCHANGED <<file, now, harg, round, bridgeVars, rebuildVars, fault, timers>>

\* updateTags from the read to `await this.writeDb(db)`; the handler returns
UpdateTagsWrite(h) ==
    /\ hpc[h] = "tagsRead"
    /\ harg[h].op # "rename"
    /\ file' = UpdateTagsDb(hdb[h])
    /\ hpc' = [hpc EXCEPT ![h] = "idle"]
    /\ hdb' = [hdb EXCEPT ![h] = NoDb]
    /\ harg' = [harg EXCEPT ![h] = NoArg]
    /\ UNCHANGED <<now, round, bridgeVars, rebuildVars, fault, timers>>

\* 'rename' handler: deleteNote(oldPath) up to `await this.readDb()`; f is the
\* file under its new path
RenameRead(h, oldPath, f) ==
    /\ CanStart(h)
    /\ f.path # oldPath
    /\ hpc' = [hpc EXCEPT ![h] = "noteRead"]
    /\ hdb' = [hdb EXCEPT ![h] = file]
    /\ harg' = [harg EXCEPT ![h] = [op |-> "rename", path |-> oldPath, file |-> f]]
    /\ round' = Started([op |-> "rename", path |-> oldPath, to |-> f.path])
    /\ rebuilt' = NoRebuilt
    /\ UNCHANGED <<file, now, bridgeVars, vault, fault, timers, rpc, rq, rdb>>

\* 'rename' handler: the updateTags of its deleteNote writes
RenameTagsWrite(h) ==
    /\ hpc[h] = "tagsRead"
    /\ harg[h].op = "rename"
    /\ file' = UpdateTagsDb(hdb[h])
    /\ hpc' = [hpc EXCEPT ![h] = "deleted"]
    /\ hdb' = [hdb EXCEPT ![h] = NoDb]
    /\ UNCHANGED <<now, harg, round, bridgeVars, rebuildVars, fault, timers>>

\* 'rename' handler: deleteNote has returned; getFileCache(file), then
\* updateNote(file, metadata) up to `await this.readDb()`
RenameUpdateRead(h, metadata) ==
    /\ hpc[h] = "deleted"
    /\ hpc' = [hpc EXCEPT ![h] = "noteRead"]
    /\ hdb' = [hdb EXCEPT ![h] = file]
    /\ harg' = [harg EXCEPT ![h] = [op |-> "updateNote", file |-> harg[h].file,
                                    metadata |-> metadata]]
    /\ UNCHANGED <<file, now, round, bridgeVars, rebuildVars, fault, timers>>

\* time passes
Tick ==
    /\ now < MaxTime
    /\ now' = now + 1
    /\ UNCHANGED <<file, indexVars, bridgeVars, rebuildVars, fault, timers>>

----------------------------------------------------------------------------
(* The vault, and rebuildDatabase *)

\* the metadata the vault's files are given
VaultMetas == {MetaNull, MetaTwo}

\* faulty variant of MarkdownFiles: the first file only
MarkdownFilesFirst(v) == IF v = <<>> THEN <<>> ELSE <<v[1].file>>

\* app.vault.getMarkdownFiles()
MarkdownFiles(v) == [i \in 1..Len(v) |-> v[i].file]

\* the paths of the vault's files
VaultPaths(v) == {v[i].file.path : i \in 1..Len(v)}

\* app.metadataCache.getFileCache(f): null for a file the cache does not hold
FileCache(v, f) ==
    IF \E i \in 1..Len(v) : v[i].file = f
    THEN v[CHOOSE i \in 1..Len(v) : v[i].file = f].metadata
    ELSE MetaNull

\* a file is created in the vault
VaultCreate(f, metadata) ==
    /\ f.path \notin VaultPaths(vault)
    /\ vault' = Append(vault, [file |-> f, metadata |-> metadata])
    /\ rebuilt' = NoRebuilt
    /\ UNCHANGED <<file, now, indexVars, bridgeVars, rpc, rq, rdb, fault, timers>>

\* a file of the vault is removed
VaultDelete(i) ==
    /\ i \in 1..Len(vault)
    /\ vault' = [j \in 1..(Len(vault) - 1) |-> IF j < i THEN vault[j] ELSE vault[j + 1]]
    /\ rebuilt' = NoRebuilt
    /\ UNCHANGED <<file, now, indexVars, bridgeVars, rpc, rq, rdb, fault, timers>>

\* a markdown file is created: the 'create' handler sets a timer of 1000 ms
\* that holds the TFile
CreateEvent(h, f, metadata) ==
    /\ CanStart(h)
    /\ f.path \notin VaultPaths(vault)
    /\ vault' = Append(vault, [file |-> f, metadata |-> metadata])
    /\ hpc' = [hpc EXCEPT ![h] = "delayed"]
    /\ harg' = [harg EXCEPT ![h] = [op |-> "create", file |-> f]]
    /\ round' = Started([op |-> "create", path |-> f.path])
    /\ rebuilt' = NoRebuilt
    /\ UNCHANGED <<file, now, hdb, bridgeVars, fault, timers, rpc, rq, rdb>>

\* the timer fires: getFileCache(file), then updateNote(file, metadata) up to
\* `await this.readDb()`
CreateTimer(h) ==
    /\ hpc[h] = "delayed"
    /\ hpc' = [hpc EXCEPT ![h] = "noteRead"]
    /\ hdb' = [hdb EXCEPT ![h] = file]
    /\ harg' = [harg EXCEPT ![h] = [op |-> "updateNote", file |-> harg[h].file,
                                    metadata |-> FileCache(vault, harg[h].file)]]
    /\ round' = [round EXCEPT !.ops = Append(@, [op |-> "timer", path |-> harg[h].file.path])]
    /\ UNCHANGED <<file, now, bridgeVars, rebuildVars, fault, timers>>

\* a markdown file is deleted: the 'delete' handler runs deleteNote(file.path)
\* up to `await this.readDb()`
DeleteEvent(h, i) ==
    /\ CanStart(h)
    /\ i \in 1..Len(vault)
    /\ vault' = [j \in 1..(Len(vault) - 1) |-> IF j < i THEN vault[j] ELSE vault[j + 1]]
    /\ hpc' = [hpc EXCEPT ![h] = "noteRead"]
    /\ hdb' = [hdb EXCEPT ![h] = file]
    /\ harg' = [harg EXCEPT ![h] = [op |-> "deleteNote", path |-> vault[i].file.path]]
    /\ round' = Started([op |-> "deleteNote", path |-> vault[i].file.path])
    /\ rebuilt' = NoRebuilt
    /\ UNCHANGED <<file, now, bridgeVars, fault, timers, rpc, rq, rdb>>

\* history: a rebuild completes and leaves `doc` in the file; `start` is the
\* file it found, `before` what the rebuild before it left
RebuildDone(doc) ==
    [count |-> IF rebuilt.count < 2 THEN rebuilt.count + 1 ELSE 2,
     start |-> rebuilt.start, doc |-> doc, before |-> rebuilt.doc]

\* rebuildDatabase up to `await this.writeDb(db)` of the cleared db
RebuildClear ==
    /\ rpc = "idle"
    /\ file' = IndexDefault(now)
    /\ rpc' = "cleared"
    /\ rebuilt' = [rebuilt EXCEPT !.start = file]
    /\ UNCHANGED <<now, indexVars, bridgeVars, vault, fault, timers, rq, rdb>>

\* the write has returned: getMarkdownFiles; with no file rebuildDatabase
\* returns, else the first updateNote runs up to `await this.readDb()`
RebuildList ==
    /\ rpc = "cleared"
    /\ IF vault = <<>>
       THEN /\ rpc' = "idle"
            /\ rebuilt' = RebuildDone(file)
            /\ UNCHANGED <<rq, rdb>>
       ELSE /\ rpc' = "noteRead"
            /\ rq' = MarkdownFiles(vault)
            /\ rdb' = file
            /\ UNCHANGED rebuilt
    /\ UNCHANGED <<file, now, indexVars, bridgeVars, vault, fault, timers>>

\* updateNote(file, getFileCache(file)) of the loop, from its read to
\* `await this.writeDb(db)`
RebuildNoteWrite ==
    /\ rpc = "noteRead"
    /\ file' = UpdateNoteDb(rdb, Head(rq), FileCache(vault, Head(rq)), now)
    /\ rpc' = "noteWritten"
    /\ rdb' = NoDb
    /\ UNCHANGED <<now, indexVars, bridgeVars, vault, fault, timers, rq, rebuilt>>

\* updateTags of that updateNote up to `await this.readDb()`
RebuildTagsRead ==
    /\ rpc = "noteWritten"
    /\ rdb' = file
    /\ rpc' = "tagsRead"
    /\ UNCHANGED <<file, now, indexVars, bridgeVars, vault, fault, timers, rq, rebuilt>>

\* updateTags from its read to `await this.writeDb(db)`
RebuildTagsWrite ==
    /\ rpc = "tagsRead"
    /\ file' = UpdateTagsDb(rdb)
    /\ rpc' = "tagsWritten"
    /\ rdb' = NoDb
    /\ UNCHANGED <<now, indexVars, bridgeVars, vault, fault, timers, rq, rebuilt>>

\* the write has returned: the loop goes to its next file and runs updateNote
\* up to `await this.readDb()`, or rebuildDatabase returns
RebuildLoop ==
    /\ rpc = "tagsWritten"
    /\ rq' = Tail(rq)
    /\ IF Tail(rq) = <<>>
       THEN /\ rpc' = "idle"
            /\ rebuilt' = RebuildDone(file)
            /\ UNCHANGED rdb
       ELSE /\ rpc' = "noteRead"
            /\ rdb' = file
            /\ UNCHANGED rebuilt
    /\ UNCHANGED <<file, now, indexVars, bridgeVars, vault, fault, timers>>

----------------------------------------------------------------------------
(* DataviewQueryBridge: pure parts *)

\* defaultData of the bridge's initializeJsonDb
BridgeDefault(t) ==
    [version |-> "2.0.0", dataviewAvailable |-> FALSE, dataviewQueries |-> EmptyObj,
     lastChecked |-> t]

\* request ids clients use; id.startsWith('_') marks a control entry
QueryIds == {"q1", "q2"}
ControlIds == {"_check", "_keep"}

\* faulty variant of StartsWithUnderscore: only _check is taken for a control entry
StartsWithUnderscoreCheck(id) == id = "_check"

StartsWithUnderscore(id) == id \in ControlIds

\* faulty variant of IsAvailable: the flag of the file is consulted, not the plugin
IsAvailablePersisted(dv) == Has(file, "dataviewAvailable") /\ file.dataviewAvailable = TRUE

\* !!(dataviewPlugin && dataviewPlugin.api)
IsAvailable(dv) == dv = "ready"

\* db.dataviewQueries[id] exists with status === 'pending'
IsPending(queries, id) ==
    Has(queries, id) /\ Has(queries[id], "status") /\ queries[id].status = "pending"

\* faulty variant of PendingIds: the test on the status is missing
PendingIdsAnyStatus(queries) ==
    {id \in DOMAIN queries : ~StartsWithUnderscore(id)}

\* faulty variant of PendingIds: requests that carry a timestamp are skipped
PendingIdsUnstamped(queries) ==
    {id \in DOMAIN queries : /\ ~StartsWithUnderscore(id)
                             /\ IsPending(queries, id)
                             /\ ~Has(queries[id], "timestamp")}

\* faulty variant of PendingIds: failed requests are taken up again
PendingIdsOrFailed(queries) ==
    {id \in DOMAIN queries : /\ ~StartsWithUnderscore(id)
                             /\ Has(queries[id], "status")
                             /\ queries[id].status \in {"pending", "error"}}

\* the ids of pendingQueries: non-control entries with status pending
PendingIds(queries) ==
    {id \in DOMAIN queries : ~StartsWithUnderscore(id) /\ IsPending(queries, id)}

\* faulty variant of UnavailableEntry: the status is not set
UnavailableEntryNoStatus(queryData, t) ==
    Put(Put(queryData, "error", "Dataview plugin not available"), "timestamp", t)

\* { ...queryData, status: 'error', error: 'Dataview plugin not available', timestamp }
UnavailableEntry(queryData, t) ==
    Put(Put(Put(queryData, "status", "error"),
            "error", "Dataview plugin not available"),
        "timestamp", t)

\* the unavailable branch: every pending query marked as failed
MarkUnavailable(queries, t) ==
    [id \in DOMAIN queries |->
        IF id \in PendingIds(queries) THEN UnavailableEntry(queries[id], t)
        ELSE queries[id]]

\* what `await dv.query(query)` may produce: a successful table or list result,
\* an unsuccessful result with or without an error text, or an exception
OkTable == [kind |-> "result", successful |-> TRUE,
            value |-> [type |-> "table", headers |-> <<"File">>, values |-> <<"a.md">>]]
OkList == [kind |-> "result", successful |-> TRUE,
           value |-> [type |-> "list", values |-> <<"a.md">>]]
Failed == [kind |-> "result", successful |-> FALSE, error |-> "parse error"]
FailedSilently == [kind |-> "result", successful |-> FALSE]
Thrown == [kind |-> "throw", message |-> ""]
ThrownTimeout == [kind |-> "throw", message |-> "timeout"]
Outcomes == {OkTable, OkList, Failed, FailedSilently, Thrown, ThrownTimeout}

\* x || d for an optional field
OrElse(obj, k, d) == IF Has(obj, k) THEN obj[k] ELSE d

\* the result object stored for a successful query
StoredResult(value) ==
    LET base == [type |-> value.type,
                 headers |-> OrElse(value, "headers", <<>>),
                 values |-> OrElse(value, "values", <<>>)]
    IN IF value.type = "table"
       THEN Put(base, "columnTypes", OrElse(value, "columnTypes", <<>>))
       ELSE base

\* faulty variant of CaughtMessage: the engine's message is not kept
CaughtMessageFixed(outcome) == "Query execution failed"

\* the message of the error caught by the catch block
CaughtMessage(outcome) ==
    LET message == IF outcome.kind = "throw" THEN outcome.message
                   ELSE OrElse(outcome, "error", "Query failed")
    IN IF message = "" THEN "Query execution failed" ELSE message

\* faulty variant of ExecutedEntry: the entry gets no timestamp
ExecutedEntryUnstamped(queryData, outcome, t) ==
    LET q == IF Has(queryData, "query") THEN [query |-> queryData.query] ELSE EmptyObj
    IN IF outcome.kind = "result" /\ outcome.successful
       THEN Put(Put(q, "status", "success"), "result", StoredResult(outcome.value))
       ELSE Put(Put(q, "status", "error"), "error", CaughtMessage(outcome))

\* the entry stored after `await dv.query(query)` returned or threw; a missing
\* query text (undefined) is dropped by JSON.stringify
ExecutedEntry(queryData, outcome, t) ==
    LET q == IF Has(queryData, "query") THEN [query |-> queryData.query] ELSE EmptyObj
    IN IF outcome.kind = "result" /\ outcome.successful
       THEN Put(Put(Put(q, "status", "success"),
                    "result", StoredResult(outcome.value)),
                "timestamp", t)
       ELSE Put(Put(Put(q, "status", "error"),
                    "error", CaughtMessage(outcome)),
                "timestamp", t)

\* the clean-up: delete non-control entries whose timestamp is before oneDayAgo.
\* Timestamps are ISO strings of one format, which compare as the times do.
Purge(queries, t) ==
    LET oneDayAgo == t - OneDay
        old(id) == /\ ~StartsWithUnderscore(id)
                   /\ Has(queries[id], "timestamp")
                   /\ queries[id].timestamp < oneDayAgo
    IN [id \in {i \in DOMAIN queries : ~old(i)} |-> queries[id]]

----------------------------------------------------------------------------
(* DataviewQueryBridge: the poll callback and the clients of the file *)

\* runs of the setInterval callback that may be in flight at once
Pollers == {1, 2}

\* history of a poll cycle: how it ended and when, the availability probe it made,
\* the requests that were pending in the file it read, and the outcome and time
\* of every dv.query call it made
NoCycle == [kind |-> "none", at |-> 0, probe |-> FALSE, probeAt |-> 0,
            pending |-> {}, stale |-> {}, ran |-> EmptyObj,
            check |-> FALSE, control |-> {}]

\* history: the requests waiting in the document a poll cycle reads
Waiting(doc) ==
    {id \in QueryIds : /\ Has(doc, "dataviewQueries")
                       /\ Has(doc.dataviewQueries, id)
                       /\ doc.dataviewQueries[id].status = "pending"}

\* history: the waiting requests that carry a timestamp older than a day at time t
WaitingStale(doc, t) ==
    {id \in Waiting(doc) : /\ Has(doc.dataviewQueries[id], "timestamp")
                           /\ doc.dataviewQueries[id].timestamp < t - OneDay}

\* history: the control entries of the document a poll cycle reads
ControlRead(doc) ==
    {id \in ControlIds : Has(doc, "dataviewQueries") /\ Has(doc.dataviewQueries, id)}

\* history: _check is pending in the document a poll cycle reads
CheckRead(doc) ==
    /\ Has(doc, "dataviewQueries")
    /\ Has(doc.dataviewQueries, "_check")
    /\ doc.dataviewQueries["_check"].status = "pending"

\* history: poller p's cycle ends as `kind`
Ended(p, kind) == [cycle EXCEPT ![p].kind = kind, ![p].at = now]

\* the timer fires: checkAndExecuteDataviewQueries up to `await this.readDb()`
PollRead(p) ==
    /\ bpc[p] = "idle"
    /\ bpc' = [bpc EXCEPT ![p] = "read"]
    /\ bdb' = [bdb EXCEPT ![p] = file]
    /\ cycle' = [q \in Pollers |->
                    IF q = p THEN [NoCycle EXCEPT !.kind = "running", !.pending = Waiting(file),
                                                !.stale = WaitingStale(file, now),
                                                !.check = CheckRead(file),
                                                !.control = ControlRead(file)]
                    ELSE IF bpc[q] = "idle" THEN NoCycle ELSE cycle[q]]
    /\ UNCHANGED <<file, now, indexVars, rebuildVars, fault, timers, cdb, bq, dataview>>

\* `if (!db.dataviewQueries) return;`
PollNoQueries(p) ==
    /\ bpc[p] = "read"
    /\ ~Has(bdb[p], "dataviewQueries")
    /\ bpc' = [bpc EXCEPT ![p] = "idle"]
    /\ bdb' = [bdb EXCEPT ![p] = NoDb]
    /\ cycle' = Ended(p, "noQueries")
    /\ UNCHANGED <<file, now, indexVars, rebuildVars, fault, timers, cdb, bq, dataview>>

\* _check is pending: checkDataviewAvailability is called and runs up to its
\* `await this.readDb()`
PollCheckRead(p) ==
    /\ bpc[p] = "read"
    /\ Has(bdb[p], "dataviewQueries")
    /\ IsPending(bdb[p].dataviewQueries, "_check")
    /\ bpc' = [bpc EXCEPT ![p] = "checkRead"]
    /\ cdb' = [cdb EXCEPT ![p] = file]
    /\ cycle' = [cycle EXCEPT ![p].at = now]
    /\ UNCHANGED <<file, now, indexVars, rebuildVars, fault, timers, bdb, bq, dataview>>

\* the db object checkDataviewAvailability writes, from the db object it read
AvailabilityDb(db, dv, t) ==
    Put(Put(db, "dataviewAvailable", IsAvailable(dv)), "lastChecked", t)

\* checkDataviewAvailability from its read to `await this.writeDb(db)`
PollCheckWrite(p) ==
    /\ bpc[p] = "checkRead"
    /\ file' = AvailabilityDb(cdb[p], dataview, now)
    /\ bpc' = [bpc EXCEPT ![p] = "checkWritten"]
    /\ cdb' = [cdb EXCEPT ![p] = NoDb]
    /\ cycle' = [cycle EXCEPT ![p].probe = IsAvailable(dataview), ![p].probeAt = now]
    /\ UNCHANGED <<now, indexVars, rebuildVars, fault, timers, bdb, bq, dataview>>

\* faulty variant of CheckDoneDb: _check is not deleted
CheckDoneDbKeep(db) == db

\* faulty variant of CheckDoneDb: the requests are dropped with _check
CheckDoneDbEmptied(db) == [db EXCEPT !.dataviewQueries = EmptyObj]

\* the db object the poll callback writes after the availability check
CheckDoneDb(db) == [db EXCEPT !.dataviewQueries = Del(@, "_check")]

\* back in the poll callback: `delete db.dataviewQueries._check`, writeDb, return
PollCheckDone(p) ==
    /\ bpc[p] = "checkWritten"
    /\ file' = CheckDoneDb(bdb[p])
    /\ bpc' = [bpc EXCEPT ![p] = "idle"]
    /\ bdb' = [bdb EXCEPT ![p] = NoDb]
    /\ cycle' = [cycle EXCEPT ![p].kind = "check"]
    /\ UNCHANGED <<now, indexVars, rebuildVars, fault, timers, cdb, bq, dataview>>

\* no _check to handle: the poll callback goes on to the pending queries
NoCheck(db) ==
    /\ Has(db, "dataviewQueries")
    /\ ~IsPending(db.dataviewQueries, "_check")

\* `if (pendingQueries.length === 0) return;`
PollNoPending(p) ==
    /\ bpc[p] = "read"
    /\ NoCheck(bdb[p])
    /\ PendingIds(bdb[p].dataviewQueries) = {}
    /\ bpc' = [bpc EXCEPT ![p] = "idle"]
    /\ bdb' = [bdb EXCEPT ![p] = NoDb]
    /\ cycle' = Ended(p, "noPending")
    /\ UNCHANGED <<file, now, indexVars, rebuildVars, fault, timers, cdb, bq, dataview>>

\* the db object written when the Dataview API is missing
UnavailableDb(db, t) == [db EXCEPT !.dataviewQueries = MarkUnavailable(@, t)]

\* Dataview is not available: mark the pending queries as failed, writeDb, return
PollUnavailable(p) ==
    /\ bpc[p] = "read"
    /\ NoCheck(bdb[p])
    /\ PendingIds(bdb[p].dataviewQueries) # {}
    /\ ~IsAvailable(dataview)
    /\ file' = UnavailableDb(bdb[p], now)
    /\ bpc' = [bpc EXCEPT ![p] = "idle"]
    /\ bdb' = [bdb EXCEPT ![p] = NoDb]
    /\ cycle' = Ended(p, "unavailable")
    /\ UNCHANGED <<now, indexVars, rebuildVars, fault, timers, cdb, bq, dataview>>

\* Dataview is available: the loop starts with the first `await dv.query(query)`
PollExecute(p) ==
    /\ bpc[p] = "read"
    /\ NoCheck(bdb[p])
    /\ PendingIds(bdb[p].dataviewQueries) # {}
    /\ IsAvailable(dataview)
    /\ bpc' = [bpc EXCEPT ![p] = "exec"]
    /\ bq' = [bq EXCEPT ![p] = PendingIds(bdb[p].dataviewQueries)]
    /\ cycle' = [cycle EXCEPT ![p].at = now]
    /\ UNCHANGED <<file, now, indexVars, rebuildVars, fault, timers, bdb, cdb, dataview>>

\* the db object after the outcome of one query is stored
ExecutedDb(db, id, outcome, t) ==
    [db EXCEPT !.dataviewQueries = Put(@, id, ExecutedEntry(@[id], outcome, t))]

\* the db object written at the end of the loop, after the clean-up
PurgedDb(db, t) == [db EXCEPT !.dataviewQueries = Purge(@, t)]

\* history: what a dv.query call produced, and when
Ran(outcome) == [outcome |-> outcome, at |-> now]

\* one `await dv.query(query)` returns or throws and its outcome is stored; pending
\* queries are taken in the key order of dataviewQueries, which the clients
\* decide. After the last one the clean-up runs and the db is written.
PollQueryDone(p, id, outcome) ==
    /\ bpc[p] = "exec"
    /\ id \in bq[p]
    /\ LET db == ExecutedDb(bdb[p], id, outcome, now)
           last == bq[p] = {id}
       IN /\ bq' = [bq EXCEPT ![p] = @ \ {id}]
          /\ IF last
             THEN /\ file' = PurgedDb(db, now)
                  /\ bpc' = [bpc EXCEPT ![p] = "idle"]
                  /\ bdb' = [bdb EXCEPT ![p] = NoDb]
                  /\ cycle' = [cycle EXCEPT ![p].kind = "execute",
                                             ![p].ran = Put(@, id, Ran(outcome))]
             ELSE /\ bdb' = [bdb EXCEPT ![p] = db]
                  /\ cycle' = [cycle EXCEPT ![p].ran = Put(@, id, Ran(outcome))]
                  /\ UNCHANGED <<file, bpc>>
    /\ UNCHANGED <<now, indexVars, rebuildVars, fault, timers, cdb, dataview>>

\* an external tool adds a request to the dataviewQueries object of the file
ClientSubmit(id, entry) ==
    /\ file' = Put(file, "dataviewQueries",
                   Put(OrElse(file, "dataviewQueries", EmptyObj), id, entry))
    /\ UNCHANGED <<now, indexVars, bridgeVars, rebuildVars, fault, timers>>

\* a query request as the README gives it
SubmitQuery(id) == ClientSubmit(id, [query |-> "LIST", status |-> "pending"])

\* a query request that carries a timestamp, as a client writes when it puts
\* back an entry it wants executed again
SubmitStamped(id) ==
    ClientSubmit(id, [query |-> "LIST", status |-> "pending", timestamp |-> 0])

\* a control entry of a client's own, made to look like an old request
SubmitControl ==
    ClientSubmit("_keep", [query |-> "LIST", status |-> "pending", timestamp |-> 0])

\* the availability check request as the README gives it
SubmitCheck == ClientSubmit("_check", [status |-> "pending"])

\* the Dataview plugin is enabled, finishes loading or is disabled
DataviewChange(dv) ==
    /\ dv # dataview
    /\ dataview' = dv
    /\ UNCHANGED <<file, now, indexVars, rebuildVars, fault, timers, bpc, bdb, cdb, bq, cycle>>

\* the timeout of 2000 ms set by startDataviewQueryChecker fires:
\* checkDataviewAvailability up to `await this.readDb()`
CheckTimerRead ==
    /\ timers.check = "armed"
    /\ timers' = [timers EXCEPT !.check = "read", !.db = file]
    /\ UNCHANGED <<file, now, indexVars, bridgeVars, rebuildVars, fault>>

\* checkDataviewAvailability from its read to `await this.writeDb(db)`
CheckTimerWrite ==
    /\ timers.check = "read"
    /\ file' = AvailabilityDb(timers.db, dataview, now)
    /\ timers' = [timers EXCEPT !.check = "done", !.db = NoDb]
    /\ UNCHANGED <<now, indexVars, bridgeVars, rebuildVars, fault>>

\* close(), called by onunload: window.clearInterval(this.queryCheckInterval)
Close ==
    /\ ~timers.closed
    /\ timers' = [timers EXCEPT !.interval = FALSE, !.closed = TRUE]
    /\ UNCHANGED <<file, now, indexVars, bridgeVars, rebuildVars, fault>>

\* the interval timer fires, if it is still set, and a poll cycle starts
IntervalFires(p) ==
    /\ timers.interval
    /\ PollRead(p)

\* a poll cycle that has started goes on
PollRuns(p) ==
    \/ PollNoQueries(p)
    \/ PollCheckRead(p)
    \/ PollCheckWrite(p)
    \/ PollCheckDone(p)
    \/ PollNoPending(p)
    \/ PollUnavailable(p)
    \/ PollExecute(p)
    \/ \E id \in QueryIds : PollQueryDone(p, id, OkList)

----------------------------------------------------------------------------
(* Failing reads and writes *)

\* no file at the path: adapter.read throws
Missing == [missing |-> TRUE]

\* a file whose text JSON.parse rejects
Garbled == [garbled |-> TRUE]

\* what a reader finds at the path
Found(doc) ==
    IF doc = Missing THEN "missing" ELSE IF doc = Garbled THEN "garbled" ELSE "json"

\* readDb: adapter.read throws for a missing file, JSON.parse for a garbled
\* one, and no caller catches either
ReadDbError(doc) ==
    IF doc = Missing THEN "ENOENT" ELSE IF doc = Garbled THEN "SyntaxError" ELSE "none"

\* faulty variant of InitializeJsonDb: a garbled file is replaced as well
InitializeJsonDbRepair(doc, defaultData) ==
    IF doc \in {Missing, Garbled} THEN defaultData ELSE doc

\* faulty variant of InitializeJsonDb: the default document is always written
InitializeJsonDbAlways(doc, defaultData) == defaultData

\* initializeJsonDb: `try { await adapter.read(path) } catch { write default }`;
\* the text read is not parsed
InitializeJsonDb(doc, defaultData) ==
    IF doc = Missing THEN defaultData ELSE doc

\* history: operation `op` met `error` on a file found as `found`
Fault(op, found, error) ==
    [op |-> op, found |-> found, error |-> error, n |-> 1 - fault.n]

\* nothing of either plugin is running
AllIdle == Quiescent /\ rpc = "idle" /\ \A p \in Pollers : bpc[p] = "idle"

\* the file is removed or damaged from outside while no operation is between
\* a read and its write
Outside(doc) ==
    /\ rpc = "idle"
    /\ \A p \in Pollers : bpc[p] = "idle"
    /\ \A h \in Handlers : hpc[h] \in {"idle", "noteWritten"}
    /\ file # doc
    /\ file' = doc
    /\ fault' = Fault("outside", Found(file), "none")
    /\ UNCHANGED <<now, indexVars, bridgeVars, vault, rpc, rq, rdb, rebuilt, timers>>

\* SQLiteMetadataDB.initDatabase, when the metadata plugin is loaded
IndexInitDatabase ==
    /\ AllIdle
    /\ file' = InitializeJsonDb(file, IndexDefault(now))
    /\ fault' = Fault("initDatabase", Found(file), "none")
    /\ UNCHANGED <<now, indexVars, bridgeVars, vault, rpc, rq, rdb, rebuilt, timers>>

\* DataviewQueryBridge.initDatabase, when the bridge plugin is loaded
BridgeInitDatabase ==
    /\ AllIdle
    /\ file' = InitializeJsonDb(file, BridgeDefault(now))
    /\ fault' = Fault("initDatabase", Found(file), "none")
    /\ UNCHANGED <<now, indexVars, bridgeVars, vault, rpc, rq, rdb, rebuilt, timers>>

\* updateNote or deleteNote of an event handler: `await this.readDb()` throws
\* and the method rejects
NoteReadThrows(h, op) ==
    /\ CanStart(h)
    /\ ReadDbError(file) # "none"
    /\ fault' = Fault(op, Found(file), ReadDbError(file))
    /\ UNCHANGED <<file, now, indexVars, bridgeVars, vault, rpc, rq, rdb, rebuilt, timers>>

\* updateTags at the end of updateNote or deleteNote: its readDb throws
UpdateTagsReadThrows(h) ==
    /\ hpc[h] = "noteWritten"
    /\ ReadDbError(file) # "none"
    /\ hpc' = [hpc EXCEPT ![h] = "idle"]
    /\ harg' = [harg EXCEPT ![h] = NoArg]
    /\ fault' = Fault("updateTags", Found(file), ReadDbError(file))
    /\ UNCHANGED <<file, now, hdb, round, bridgeVars, vault, rpc, rq, rdb, rebuilt, timers>>

\* the poll callback: `await this.readDb()` throws and the callback rejects
PollReadThrows(p) ==
    /\ bpc[p] = "idle"
    /\ ReadDbError(file) # "none"
    /\ fault' = Fault("poll", Found(file), ReadDbError(file))
    /\ UNCHANGED <<file, now, indexVars, bridgeVars, vault, rpc, rq, rdb, rebuilt, timers>>

\* the first writeDb of updateNote or deleteNote throws: the method rejects
\* and the file stays as it is
NoteWriteThrows(h) ==
    /\ hpc[h] = "noteRead"
    /\ hpc' = [hpc EXCEPT ![h] = "idle"]
    /\ hdb' = [hdb EXCEPT ![h] = NoDb]
    /\ harg' = [harg EXCEPT ![h] = NoArg]
    /\ fault' = Fault(harg[h].op, Found(file), "EIO")
    /\ UNCHANGED <<file, now, round, bridgeVars, vault, rpc, rq, rdb, rebuilt, timers>>

\* the writeDb of updateTags throws, after the first writeDb of the method
\* has gone through
UpdateTagsWriteThrows(h) ==
    /\ hpc[h] = "tagsRead"
    /\ hpc' = [hpc EXCEPT ![h] = "idle"]
    /\ hdb' = [hdb EXCEPT ![h] = NoDb]
    /\ harg' = [harg EXCEPT ![h] = NoArg]
    /\ fault' = Fault(harg[h].op, Found(file), "EIO")
    /\ UNCHANGED <<file, now, round, bridgeVars, vault, rpc, rq, rdb, rebuilt, timers>>

\* `metadata?.listItems || metadata?.sections`: updateNote reads the note
NeedsContent(metadata) == metadata.listItems # <<>>

\* updateNote of the rebuild loop: `await this.app.vault.read(file)` throws;
\* nothing catches it, so rebuildDatabase rejects
RebuildNoteThrows ==
    /\ rpc = "noteRead"
    /\ NeedsContent(FileCache(vault, Head(rq)))
    /\ rpc' = "idle"
    /\ rq' = <<>>
    /\ rdb' = NoDb
    /\ rebuilt' = NoRebuilt
    /\ fault' = Fault("rebuildDatabase", Found(file), "read")
    /\ UNCHANGED <<file, now, indexVars, bridgeVars, vault, timers>>

----------------------------------------------------------------------------
(* Specifications *)

InitRebuildVars ==
    /\ rpc = "idle"
    /\ rq = <<>>
    /\ rdb = NoDb
    /\ rebuilt = NoRebuilt
    /\ fault = NoFault

\* the handlers are idle and no rebuild runs; the vault is empty
InitIndexVars ==
    /\ hpc = [h \in Handlers |-> "idle"]
    /\ hdb = [h \in Handlers |-> NoDb]
    /\ harg = [h \in Handlers |-> NoArg]
    /\ round = [base |-> NoDb, ops |-> <<>>, stored |-> ""]
    /\ vault = <<>>
    /\ InitRebuildVars

\* no poll callback is in flight
InitPollVars ==
    /\ bpc = [p \in Pollers |-> "idle"]
    /\ bdb = [p \in Pollers |-> NoDb]
    /\ cdb = [p \in Pollers |-> NoDb]
    /\ bq = [p \in Pollers |-> {}]
    /\ cycle = [p \in Pollers |-> NoCycle]

\* the bridge is running: the delayed availability check is done, the poll
\* timer is set
InitBridgeVars ==
    /\ InitPollVars
    /\ timers = [interval |-> TRUE, check |-> "done", db |-> NoDb, closed |-> FALSE]

\* the metadata plugin has initialised the file; Dataview is not loaded yet
Init ==
    /\ file = IndexDefault(0)
    /\ now = 0
    /\ dataview = "missing"
    /\ InitIndexVars
    /\ InitBridgeVars

IndexStepWith(h, metas) ==
    \/ \E f \in Files, m \in metas : UpdateNoteRead(h, f, m)
    \/ \E f \in Files : DeleteNoteRead(h, f.path)
    \/ NoteWrite(h)
    \/ UpdateTagsRead(h)
    \/ UpdateTagsWrite(h)

IndexStep(h) == IndexStepWith(h, Metas)

PollStepWith(p, outcomes) ==
    \/ PollRead(p)
    \/ PollNoQueries(p)
    \/ PollCheckRead(p)
    \/ PollCheckWrite(p)
    \/ PollCheckDone(p)
    \/ PollNoPending(p)
    \/ PollUnavailable(p)
    \/ PollExecute(p)
    \/ \E id \in QueryIds, o \in outcomes : PollQueryDone(p, id, o)

PollStep(p) == PollStepWith(p, Outcomes)

ClientStep ==
    \/ \E id \in QueryIds : SubmitQuery(id)
    \/ SubmitCheck

DataviewStep == \E dv \in {"missing", "loading", "ready"} : DataviewChange(dv)

RebuildStep ==
    \/ RebuildClear
    \/ RebuildList
    \/ RebuildNoteWrite
    \/ RebuildTagsRead
    \/ RebuildTagsWrite
    \/ RebuildLoop

VaultStep ==
    \/ \E f \in Files, metadata \in VaultMetas : VaultCreate(f, metadata)
    \/ \E i \in 1..2 : VaultDelete(i)

\* the whole program: overlapping handlers and poll cycles
Next ==
    \/ Tick
    \/ \E h \in Handlers : IndexStep(h)
    \/ \E p \in Pollers : PollStep(p)
    \/ ClientStep
    \/ DataviewStep
    \/ RebuildStep
    \/ VaultStep

Spec == Init /\ [][Next]_vars

\* index operations executed one at a time
NextSeq ==
    \/ Tick
    \/ IndexStep(CHOOSE h \in Handlers : TRUE)

SpecSeq == Init /\ [][NextSeq]_vars

\* overlapping index operations, with the clock stopped
NextRace == \E h \in Handlers : IndexStepWith(h, {MetaOne, MetaTwo})

SpecRace == Init /\ [][NextRace]_vars

\* either plugin may have created the file
InitBridge ==
    /\ file \in {IndexDefault(0), BridgeDefault(0)}
    /\ now = 0
    /\ dataview \in {"missing", "ready"}
    /\ InitIndexVars
    /\ InitBridgeVars

\* an index that holds root/b.md, as an event handler left it
StaleDoc == UpdateTagsDb(UpdateNoteDb(IndexDefault(0), FileB, MetaOne, 0))

\* the index is empty or lags behind the vault (events are missed while the
\* plugin is not loaded, and updates of overlapping handlers are lost)
InitRebuild ==
    /\ file \in {IndexDefault(0), StaleDoc}
    /\ now = 0
    /\ dataview = "missing"
    /\ InitIndexVars
    /\ InitBridgeVars

\* rebuilds run one after the other with no event handler; the vault changes
\* between them
VaultStepBetween == rpc = "idle" /\ VaultStep

NextRebuild ==
    \/ Tick
    \/ RebuildStep
    \/ VaultStepBetween

SpecRebuild == InitRebuild /\ [][NextRebuild]_vars

\* both plugins are loaded, the metadata plugin has initialised the file and
\* the vault holds one note
InitShared ==
    /\ file = IndexDefault(0)
    /\ now = 0
    /\ dataview \in {"missing", "ready"}
    /\ hpc = [h \in Handlers |-> "idle"]
    /\ hdb = [h \in Handlers |-> NoDb]
    /\ harg = [h \in Handlers |-> NoArg]
    /\ round = [base |-> NoDb, ops |-> <<>>, stored |-> ""]
    /\ vault = <<[file |-> FileA, metadata |-> MetaTwo]>>
    /\ InitRebuildVars
    /\ InitBridgeVars

PollIdle == \A p \in Pollers : bpc[p] = "idle"

\* an event handler runs while no rebuild and no poll cycle does
HandlerTurn ==
    /\ rpc = "idle" /\ PollIdle
    /\ IndexStepWith(CHOOSE h \in Handlers : TRUE, {MetaOne})

\* a rebuild runs while no event handler and no poll cycle does
RebuildTurn ==
    /\ Quiescent /\ PollIdle
    /\ RebuildStep

\* a poll cycle runs while no event handler and no rebuild does
PollTurn ==
    /\ Quiescent /\ rpc = "idle"
    /\ PollStepWith(CHOOSE p \in Pollers : TRUE, {OkList, Failed})

\* the operations of the two plugins run one at a time, each to its end; a
\* client of the bridge submits a query at any time
NextShared ==
    \/ HandlerTurn
    \/ RebuildTurn
    \/ PollTurn
    \/ SubmitQuery("q1")

SpecShared == InitShared /\ [][NextShared]_vars

\* poll cycles run one after the other, clients write at any time
NextBridge ==
    \/ Tick
    \/ PollStep(CHOOSE p \in Pollers : TRUE)
    \/ ClientStep
    \/ DataviewStep

SpecBridge == InitBridge /\ [][NextBridge]_vars

\* as NextBridge, with clients that also put back entries carrying a timestamp
NextStamped ==
    \/ Tick
    \/ PollStepWith(CHOOSE p \in Pollers : TRUE, {OkList, Failed})
    \/ ClientStep
    \/ \E id \in QueryIds : SubmitStamped(id)
    \/ DataviewStep

SpecStamped == InitBridge /\ [][NextStamped]_vars

\* as NextBridge, with a client that also keeps a control entry of its own
NextControl ==
    \/ Tick
    \/ PollStepWith(CHOOSE p \in Pollers : TRUE, {OkList, Failed})
    \/ ClientStep
    \/ SubmitControl
    \/ DataviewStep

SpecControl == InitBridge /\ [][NextControl]_vars

\* the metadata plugin or the bridge has initialised the file; a client may
\* have asked for one availability check
InitBridgeFair ==
    /\ file \in {IndexDefault(0), BridgeDefault(0),
                 Put(BridgeDefault(0), "dataviewQueries",
                     Put(EmptyObj, "_check", [status |-> "pending"]))}
    /\ now = 0
    /\ dataview \in {"missing", "ready"}
    /\ InitIndexVars
    /\ InitBridgeVars

\* as NextBridge, with no further availability check requested
NextBridgeFair ==
    \/ Tick
    \/ PollStep(CHOOSE p \in Pollers : TRUE)
    \/ \E id \in QueryIds : SubmitQuery(id)
    \/ DataviewStep

\* setInterval keeps firing the poll callback, and every await of the callback
\* (file read, file write, dv.query) returns
SpecBridgeFair ==
    /\ InitBridgeFair
    /\ [][NextBridgeFair]_vars
    /\ WF_vars(PollStep(CHOOSE p \in Pollers : TRUE))

\* the file is missing or garbled when the plugins are loaded; the vault
\* holds one note
InitFault ==
    /\ file \in {Missing, Garbled}
    /\ now = 0
    /\ dataview = "missing"
    /\ hpc = [h \in Handlers |-> "idle"]
    /\ hdb = [h \in Handlers |-> NoDb]
    /\ harg = [h \in Handlers |-> NoArg]
    /\ round = [base |-> NoDb, ops |-> <<>>, stored |-> ""]
    /\ vault = <<[file |-> FileA, metadata |-> MetaTwo]>>
    /\ InitRebuildVars
    /\ InitBridgeVars

\* readDb returns: an event handler runs on a document that has the index fields
HandlerTurnRead ==
    /\ ReadDbError(file) = "none"
    /\ Has(file, "notes")
    /\ HandlerTurn

\* readDb returns: a poll cycle runs
PollTurnRead ==
    /\ ReadDbError(file) = "none"
    /\ PollTurn

\* readDb throws in an event handler
HandlerThrows ==
    /\ rpc = "idle" /\ PollIdle
    /\ LET h == CHOOSE h \in Handlers : TRUE
       IN \/ NoteReadThrows(h, "updateNote")
          \/ NoteReadThrows(h, "deleteNote")
          \/ UpdateTagsReadThrows(h)

\* readDb throws in the poll callback
PollThrows ==
    /\ Quiescent /\ rpc = "idle"
    /\ PollReadThrows(CHOOSE p \in Pollers : TRUE)

\* the operations run one at a time on a file that may be missing or garbled
NextFault ==
    \/ IndexInitDatabase
    \/ BridgeInitDatabase
    \/ Outside(Missing)
    \/ Outside(Garbled)
    \/ HandlerTurnRead
    \/ PollTurnRead
    \/ HandlerThrows
    \/ PollThrows
    \/ RebuildTurn

SpecFault == InitFault /\ [][NextFault]_vars

\* the plugins are loaded on no file, on an empty index or on an index with a note
InitLoad ==
    /\ file \in {Missing, IndexDefault(0), StaleDoc}
    /\ now = 0
    /\ dataview = "missing"
    /\ InitIndexVars
    /\ InitBridgeVars

\* a client adds a request to a file it can parse
ClientWrites ==
    /\ ReadDbError(file) = "none"
    /\ \E id \in QueryIds : SubmitQuery(id)

\* the plugins are loaded and reloaded; clients queue requests and the file
\* may be removed in between
NextLoad ==
    \/ Tick
    \/ IndexInitDatabase
    \/ BridgeInitDatabase
    \/ ClientWrites
    \/ Outside(Missing)

SpecLoad == InitLoad /\ [][NextLoad]_vars

\* what a handler does once its method is running
HandlerRuns(h) ==
    \/ NoteWrite(h)
    \/ UpdateTagsRead(h)
    \/ UpdateTagsWrite(h)

\* files are created and deleted in the vault; the 'create' handler waits for
\* its timer while another handler serves the 'delete' event
NextCreate ==
    \/ \E f \in Files, m \in VaultMetas : CreateEvent(1, f, m)
    \/ CreateTimer(1)
    \/ \E i \in 1..2 : DeleteEvent(2, i)
    \/ \E h \in Handlers : HandlerRuns(h)

SpecCreate == Init /\ [][NextCreate]_vars

\* the timer fires every 500 ms whether or not the callback it started before
\* has returned: two poll callbacks may be in flight; clients submit requests
NextOverlap ==
    \/ \E p \in Pollers : PollStepWith(p, {OkList, Failed})
    \/ \E id \in QueryIds : SubmitQuery(id)

SpecOverlap == InitBridgeFair /\ [][NextOverlap]_vars

\* initDatabase has returned: the poll timer is set and the availability check
\* is due in 2000 ms
InitClose ==
    /\ file \in {IndexDefault(0), BridgeDefault(0),
                 Put(BridgeDefault(0), "dataviewQueries",
                     Put(EmptyObj, "_check", [status |-> "pending"]))}
    /\ now = 0
    /\ dataview \in {"missing", "ready"}
    /\ InitIndexVars
    /\ InitPollVars
    /\ timers = [interval |-> TRUE, check |-> "armed", db |-> NoDb, closed |-> FALSE]

\* the bridge runs until the plugin is unloaded; clients go on writing
NextClose ==
    \/ IntervalFires(CHOOSE p \in Pollers : TRUE)
    \/ PollRuns(CHOOSE p \in Pollers : TRUE)
    \/ CheckTimerRead
    \/ CheckTimerWrite
    \/ Close
    \/ \E id \in QueryIds : SubmitQuery(id)
    \/ DataviewStep

SpecClose == InitClose /\ [][NextClose]_vars

\* the steps of a 'rename' handler
RenameStep(h) ==
    \/ \E f \in Files, g \in Files : RenameRead(h, g.path, f)
    \/ RenameTagsWrite(h)
    \/ \E m \in {MetaNull, MetaOne} : RenameUpdateRead(h, m)

\* one event handler at a time, renames among them
NextRename ==
    \/ IndexStepWith(CHOOSE h \in Handlers : TRUE, {MetaTwo})
    \/ RenameStep(CHOOSE h \in Handlers : TRUE)

SpecRename == Init /\ [][NextRename]_vars

\* one event handler at a time, with writes that may fail
NextWriteFault ==
    \/ IndexStepWith(CHOOSE h \in Handlers : TRUE, {MetaNull, MetaOne})
    \/ NoteWriteThrows(CHOOSE h \in Handlers : TRUE)
    \/ UpdateTagsWriteThrows(CHOOSE h \in Handlers : TRUE)

SpecWriteFault == Init /\ [][NextWriteFault]_vars

\* rebuilds of a changing vault, with notes that may fail to be read
NextRebuildFault ==
    \/ RebuildStep
    \/ VaultStepBetween
    \/ RebuildNoteThrows

SpecRebuildFault == InitRebuild /\ [][NextRebuildFault]_vars

----------------------------------------------------------------------------
(* Properties of the index store *)

\* every path that can occur as a key or a link target, and one that cannot
AllPaths == {"a.md", "root/b.md", "c.md", "pic.png", "ghost.md"}

Outlinks(doc, p) == IF Has(doc.links, p) THEN Range(doc.links[p].outlinks) ELSE {}
Backlinks(doc, p) == IF Has(doc.links, p) THEN Range(doc.links[p].backlinks) ELSE {}

\* sum of F over the notes, by index
RECURSIVE SumOver(_, _, _)
SumOver(notes, F(_), n) == IF n = 0 THEN 0 ELSE F(notes[n]) + SumOver(notes, F, n - 1)

CountOutlinks(n) == Len(n.outlinks)
CountEmbeds(n) == Len(n.embeds)
CountTasks(n) == Len(n.tasks)
CountOpenTasks(n) == Cardinality({i \in DOMAIN n.tasks : ~n.tasks[i].completed})

\* the round consisted of the single operation `a`, which has completed
Completed(a) == Quiescent /\ round.ops = <<a>>

Upsert(p) == [op |-> "updateNote", path |-> p]
Delete(p) == [op |-> "deleteNote", path |-> p]

\* the index document without stats.lastUpdated
IndexPart(doc) ==
    [notes |-> doc.notes, tags |-> doc.tags, folders |-> doc.folders,
     links |-> doc.links,
     stats |-> [k \in DOMAIN doc.stats \ {"lastUpdated"} |-> doc.stats[k]]]

\* C1: after any sequence of completed updateNote and deleteNote operations run
\* one at a time, stats.totalNotes is the number of keys of notes.
C1_TotalNotes ==
    Quiescent => file.stats.totalNotes = Cardinality(NoteKeys(file.notes))

\* a delete of an indexed note has completed and left one note
C1_Witness ==
    /\ Completed(Delete("a.md"))
    /\ "a.md" \in NoteKeys(round.base.notes)
    /\ file.stats.totalNotes = 1
    /\ NoteKeys(file.notes) = {"root/b.md"}

\* C2: after every completed upsert or delete, for every note N and every path
\* P: P is in links[N.path].outlinks iff N.path is in links[P].backlinks; a link
\* target that is no key of notes has a links entry with empty outlinks.
C2_LinkSymmetry ==
    Quiescent =>
        \A i \in DOMAIN file.notes :
            LET N == file.notes[i]
            IN /\ Has(file.links, N.path)
               /\ \A P \in AllPaths :
                    /\ (P \in Outlinks(file, N.path)) <=> (N.path \in Backlinks(file, P))
                    /\ (P \in Range(N.outlinks) /\ P \notin NoteKeys(file.notes))
                          => Has(file.links, P) /\ file.links[P].outlinks = <<>>

\* an upsert has completed whose note links to c.md, which is not indexed
C2_Witness ==
    /\ Completed(Upsert("a.md"))
    /\ "c.md" \in Outlinks(file, "a.md")
    /\ "c.md" \notin NoteKeys(file.notes)
    /\ "a.md" \in Backlinks(file, "c.md")

\* C3: after every completed upsert or delete the scalar statistics are the
\* sums over the notes: totalTags the number of keys of tags, totalLinks /
\* totalEmbeds / totalTasks the summed lengths of outlinks / embeds / tasks,
\* totalIncompleteTasks the number of tasks that are not completed.
C3_StatsAreSums ==
    Quiescent =>
        LET n == Len(file.notes)
        IN /\ file.stats.totalTags = Cardinality(DOMAIN file.tags)
           /\ file.stats.totalLinks = SumOver(file.notes, CountOutlinks, n)
           /\ file.stats.totalEmbeds = SumOver(file.notes, CountEmbeds, n)
           /\ file.stats.totalTasks = SumOver(file.notes, CountTasks, n)
           /\ file.stats.totalIncompleteTasks = SumOver(file.notes, CountOpenTasks, n)

\* an upsert has completed with two notes indexed, having 4 tasks of which 3
\* are open, 5 outlinks and 3 embeds between them
C3_Witness ==
    /\ Completed(Upsert("root/b.md"))
    /\ Len(file.notes) = 2
    /\ file.stats.totalTasks = 4
    /\ file.stats.totalIncompleteTasks = 3
    /\ file.stats.totalLinks = 5
    /\ file.stats.totalEmbeds = 3
    /\ file.stats.totalTags = 2

\* C4: in every persisted state of the file, tags, folders, links and stats
\* reflect the notes of that same state.
C4_AggregatesReflectNotes ==
    /\ file.stats.totalNotes = Cardinality(NoteKeys(file.notes))
    /\ file = UpdateTagsDb(file)

\* the round consisted of two overlapping upserts of distinct paths that were
\* not indexed before, and both have completed
TwoUpserts(A, B) ==
    /\ Quiescent
    /\ A # B
    /\ round.ops = <<Upsert(A), Upsert(B)>>
    /\ NoteKeys(round.base.notes) = {}

\* C5: two overlapping upserts race on the unguarded read-modify-write of the
\* file. An upsert that runs alone adds its note to the notes that were there;
\* of two overlapping upserts of distinct new paths at least one note is kept,
\* and (see the witness) the other may be discarded by the last writer.
C5_LostUpdate ==
    /\ \A p \in AllPaths :
         Completed(Upsert(p)) =>
            NoteKeys(file.notes) = NoteKeys(round.base.notes) \cup {p}
    /\ \A A, B \in AllPaths :
         TwoUpserts(A, B) =>
            /\ NoteKeys(file.notes) \subseteq {A, B}
            /\ NoteKeys(file.notes) # {}

\* both overlapping upserts have completed and only the note of the one that
\* stored last is indexed
C5_Witness ==
    \E A, B \in AllPaths :
        /\ TwoUpserts(A, B)
        /\ round.stored = B
        /\ NoteKeys(file.notes) = {B}

\* this step is the first writeDb of an updateNote run by handler h
UpsertStores(h) ==
    /\ hpc[h] = "noteRead" /\ hpc'[h] = "noteWritten"
    /\ harg[h].op = "updateNote"

\* C15: an upsert of path p stores exactly the record extracted from the file
\* under p, replacing a record that was there, and leaves the record of every
\* other path as it was; the recomputation that ends the upsert leaves notes
\* alone.
C15_UpsertFrame ==
    [][\A h \in Handlers :
          /\ UpsertStores(h) =>
                LET p == harg[h].file.path
                IN /\ NoteKeys(file'.notes) = NoteKeys(file.notes) \cup {p}
                   /\ Len(file'.notes) = Cardinality(NoteKeys(file'.notes))
                   /\ NoteAt(file'.notes, p) = NoteRecord(harg[h].file, harg[h].metadata)
                   /\ \A q \in NoteKeys(file.notes) \ {p} :
                         NoteAt(file'.notes, q) = NoteAt(file.notes, q)
          /\ hpc[h] \in {"noteWritten", "tagsRead"} => file'.notes = file.notes]_vars

\* an upsert of a.md has completed that replaced the record of a.md by a
\* different one and left the record of root/b.md as it was
C15_Witness ==
    /\ Completed(Upsert("a.md"))
    /\ NoteKeys(round.base.notes) = {"a.md", "root/b.md"}
    /\ NoteKeys(file.notes) = {"a.md", "root/b.md"}
    /\ NoteAt(file.notes, "a.md") # NoteAt(round.base.notes, "a.md")
    /\ NoteAt(file.notes, "a.md").tags # NoteAt(round.base.notes, "a.md").tags
    /\ NoteAt(file.notes, "root/b.md") = NoteAt(round.base.notes, "root/b.md")

\* C16: a completed delete of p leaves no record of p and the records of the
\* other paths as they were; when p was not indexed, notes, tags, folders,
\* links and every field of stats but lastUpdated are as before.
C16_DeleteFrame ==
    \A p \in AllPaths :
        Completed(Delete(p)) =>
            /\ NoteKeys(file.notes) = NoteKeys(round.base.notes) \ {p}
            /\ \A q \in NoteKeys(file.notes) :
                  NoteAt(file.notes, q) = NoteAt(round.base.notes, q)
            /\ p \notin NoteKeys(round.base.notes) =>
                  IndexPart(file) = IndexPart(round.base)

\* a delete of a.md has completed on an index that holds root/b.md only, at a
\* later time than the index was last written
C16_Witness ==
    /\ Completed(Delete("a.md"))
    /\ NoteKeys(round.base.notes) = {"root/b.md"}
    /\ file.stats.lastUpdated # round.base.stats.lastUpdated
    /\ file.stats.totalNotes = 1

\* C17: after a completed delete of p, p is in no backlinks list; a target
\* that only p linked to has no backlinks or no links entry.
C17_NoStaleBacklink ==
    \A p \in AllPaths :
        Completed(Delete(p)) =>
            \A P \in AllPaths :
                /\ p \notin Backlinks(file, P)
                /\ Backlinks(round.base, P) = {p} => Backlinks(file, P) = {}

\* a delete of a.md has completed; before it a.md was the only note linking to
\* c.md, and another note is left
C17_Witness ==
    /\ Completed(Delete("a.md"))
    /\ Backlinks(round.base, "c.md") = {"a.md"}
    /\ NoteKeys(file.notes) = {"root/b.md"}
    /\ Backlinks(file, "c.md") = {}

\* the tags a note can carry, and one it cannot
AllTags == {<<"x">>, <<"y">>, <<"z">>}

\* the number of notes whose tag set contains t
NotesTagged(notes, t) == Cardinality({i \in DOMAIN notes : t \in Range(notes[i].tags)})

\* C18: after every completed upsert or delete, tags[t] is the number of notes
\* whose tag set contains t, and tags has no key for a tag that no note carries.
C18_TagCounts ==
    Quiescent =>
        /\ DOMAIN file.tags \subseteq AllTags
        /\ \A t \in AllTags :
              IF NotesTagged(file.notes, t) = 0 THEN ~Has(file.tags, t)
              ELSE Has(file.tags, t) /\ file.tags[t] = NotesTagged(file.notes, t)

\* an upsert of a.md with the inline tag y and the frontmatter tags x and y into
\* an empty index has completed: tags is {x: 1, y: 1}
C18_Witness ==
    /\ Completed(Upsert("a.md"))
    /\ round.base.notes = <<>>
    /\ NoteAt(file.notes, "a.md") = NoteRecord(FileA, MetaOne)
    /\ file.tags = Put(Put(EmptyObj, <<"x">>, 1), <<"y">>, 1)

\* C19: a rebuild that follows a completed rebuild, with no change of the vault
\* and no event handler in between or during either, leaves the notes, tags,
\* folders, links and stats the first one left, lastUpdated excepted.
C19_RebuildIdempotent ==
    rebuilt.count = 2 => IndexPart(rebuilt.doc) = IndexPart(rebuilt.before)

\* two rebuilds in a row have completed at different times on a vault of two
\* files
C19_Witness ==
    /\ rebuilt.count = 2
    /\ rpc = "idle"
    /\ Len(rebuilt.doc.notes) = 2
    /\ rebuilt.doc.stats.lastUpdated # rebuilt.before.stats.lastUpdated
    /\ file = rebuilt.doc

\* C20: when a rebuild has completed with no event handler running, the keys
\* of notes are the paths of the vault's markdown files, each once, and each
\* record is the one extracted from its file.
C20_RebuildExact ==
    (rebuilt.count >= 1 /\ rpc = "idle") =>
        /\ NoteKeys(rebuilt.doc.notes) = VaultPaths(vault)
        /\ Len(rebuilt.doc.notes) = Len(vault)
        /\ \A i \in 1..Len(vault) :
              NoteAt(rebuilt.doc.notes, vault[i].file.path)
                  = NoteRecord(vault[i].file, vault[i].metadata)

\* a rebuild has completed that found root/b.md indexed while the vault holds
\* a.md only; the index holds a.md only
C20_Witness ==
    /\ rebuilt.count >= 1
    /\ rpc = "idle"
    /\ "root/b.md" \in NoteKeys(rebuilt.start.notes)
    /\ VaultPaths(vault) = {"a.md"}
    /\ NoteKeys(file.notes) = {"a.md"}

\* the metadata a stored record was extracted from, told by its links
MetaOf(rec) == CHOOSE m \in Metas : Resolved(m.links) = rec.outlinks

\* the checkbox items of a document, and those with an empty checkbox
TaskItems(m) == Cardinality({i \in DOMAIN m.listItems : m.listItems[i].task # "-"})
OpenItems(m) == Cardinality({i \in DOMAIN m.listItems : m.listItems[i].task = " "})

\* the tasks, and the open tasks, of the record under p; none when p is no key
TasksAt(notes, p) == IF p \in NoteKeys(notes) THEN CountTasks(NoteAt(notes, p)) ELSE 0
OpenTasksAt(notes, p) == IF p \in NoteKeys(notes) THEN CountOpenTasks(NoteAt(notes, p)) ELSE 0

\* C25: a completed upsert of a document with k checkbox items of which m are
\* open, at a path that was not indexed, raises totalTasks by k and
\* totalIncompleteTasks by m; at an indexed path the totals change by the
\* difference to the task counts of the replaced record.
C25_TaskDelta ==
    \A p \in AllPaths :
        Completed(Upsert(p)) =>
            LET m == MetaOf(NoteAt(file.notes, p))
            IN /\ file.stats.totalTasks
                     = round.base.stats.totalTasks + TaskItems(m) - TasksAt(round.base.notes, p)
               /\ file.stats.totalIncompleteTasks
                     = round.base.stats.totalIncompleteTasks + OpenItems(m)
                         - OpenTasksAt(round.base.notes, p)

\* an upsert of a.md, with one completed and two open tasks and a list item
\* that is no task, into an index that holds root/b.md has completed: the
\* totals are up by 3 and 2
C25_Witness ==
    /\ Completed(Upsert("a.md"))
    /\ NoteKeys(round.base.notes) = {"root/b.md"}
    /\ round.base.stats.totalTasks > 0
    /\ NoteAt(file.notes, "a.md") = NoteRecord(FileA, MetaOne)
    /\ file.stats.totalTasks = round.base.stats.totalTasks + 3
    /\ file.stats.totalIncompleteTasks = round.base.stats.totalIncompleteTasks + 2

\* the folders a note can be in, and one it cannot
AllFolders == {"root", "sub"}

\* C26: after every completed upsert or delete, folders[f] is the number of
\* notes whose folder is f for every non-empty f, folders['root'] is the
\* number of notes with an empty folder, and the counts sum to totalNotes; this
\* also when notes of a real folder named root and notes without a folder are
\* both indexed (the key root then has to be both counts).
C26_FolderCounts ==
    Quiescent =>
        LET inFolder(f) == Cardinality({i \in DOMAIN file.notes : file.notes[i].folder = f})
            count(f) == IF Has(file.folders, f) THEN file.folders[f] ELSE 0
        IN /\ \A f \in AllFolders \ {"root"} : count(f) = inFolder(f)
           /\ inFolder("root") = 0 => count("root") = inFolder("")
           /\ inFolder("") = 0 => count("root") = inFolder("root")
           /\ (inFolder("root") > 0 /\ inFolder("") > 0) =>
                 /\ count("root") = inFolder("")
                 /\ count("root") = inFolder("root")
           /\ DOMAIN file.folders \subseteq AllFolders
           /\ count("root") + count("sub") = file.stats.totalNotes

\* the paths of the notes that link to P
Linking(notes, P) == {notes[i].path : i \in {j \in DOMAIN notes : P \in Range(notes[j].outlinks)}}

\* the number of notes counted under folder key f
InFolder(notes, f) == Cardinality({i \in DOMAIN notes : FolderKey(notes[i]) = f})

\* C32: whenever no upsert or delete is in flight, however the reads and
\* writes of the completed ones interleaved and whichever note updates were
\* lost, the aggregates are those of the notes in the file: totalNotes is
\* the number of notes, the totals are the sums over them, tags and folders
\* count them, and links holds their outlinks and the backlinks these imply.
C32_QuiescentConsistent ==
    Quiescent =>
        LET n == Len(file.notes)
        IN /\ file.stats.totalNotes = Cardinality(NoteKeys(file.notes))
           /\ file.stats.totalTags = Cardinality(DOMAIN file.tags)
           /\ file.stats.totalLinks = SumOver(file.notes, CountOutlinks, n)
           /\ file.stats.totalEmbeds = SumOver(file.notes, CountEmbeds, n)
           /\ file.stats.totalTasks = SumOver(file.notes, CountTasks, n)
           /\ file.stats.totalIncompleteTasks = SumOver(file.notes, CountOpenTasks, n)
           /\ DOMAIN file.tags = {t \in AllTags : NotesTagged(file.notes, t) > 0}
           /\ \A t \in DOMAIN file.tags : file.tags[t] = NotesTagged(file.notes, t)
           /\ DOMAIN file.folders = {FolderKey(file.notes[i]) : i \in DOMAIN file.notes}
           /\ \A f \in DOMAIN file.folders : file.folders[f] = InFolder(file.notes, f)
           /\ \A P \in AllPaths :
                 /\ Backlinks(file, P) = Linking(file.notes, P)
                 /\ Has(file.links, P) <=>
                       (P \in NoteKeys(file.notes) \/ Linking(file.notes, P) # {})
                 /\ P \in NoteKeys(file.notes) =>
                       file.links[P].outlinks = NoteAt(file.notes, P).outlinks
           /\ DOMAIN file.links \subseteq AllPaths

\* two overlapping upserts into an empty index have completed, the note of
\* root/b.md was lost, and the aggregates are those of a.md alone
C32_Witness ==
    /\ TwoUpserts("a.md", "root/b.md")
    /\ NoteKeys(file.notes) = {"a.md"}
    /\ NoteAt(file.notes, "a.md") = NoteRecord(FileA, MetaTwo)
    /\ file.stats.totalNotes = 1
    /\ file.stats.totalLinks = 3
    /\ file.folders = Put(EmptyObj, "root", 1)
    /\ Backlinks(file, "root/b.md") = {}
    /\ Backlinks(file, "a.md") = {"a.md"}

Rename(old, new) == [op |-> "rename", path |-> old, to |-> new]

\* C34: after a rename handler that ran alone, the old path is no key of
\* notes, the new path is one and its record carries the new path, and
\* totalNotes is what it was if the old path was indexed and the new one not.
C34_Renamed ==
    \A old, new \in AllPaths :
        Completed(Rename(old, new)) =>
            /\ old \notin NoteKeys(file.notes)
            /\ new \in NoteKeys(file.notes)
            /\ NoteAt(file.notes, new).path = new
            /\ NoteKeys(file.notes) = (NoteKeys(round.base.notes) \ {old}) \cup {new}
            /\ (old \in NoteKeys(round.base.notes) /\ new \notin NoteKeys(round.base.notes)) =>
                  file.stats.totalNotes = round.base.stats.totalNotes

\* a.md, the only note, has been renamed to root/b.md
C34_Witness ==
    /\ Completed(Rename("a.md", "root/b.md"))
    /\ NoteKeys(round.base.notes) = {"a.md"}
    /\ NoteKeys(file.notes) = {"root/b.md"}
    /\ NoteAt(file.notes, "root/b.md").folder = "root"
    /\ file.stats.totalNotes = 1

Create(p) == [op |-> "create", path |-> p]
Fired(p) == [op |-> "timer", path |-> p]

\* C33: when a file is created, then deleted while the timer of the 'create'
\* handler is waiting, and then the timer fires, the path is no key of notes
\* once the handlers have completed.
C33_NotResurrected ==
    \A p \in AllPaths :
        (Quiescent /\ round.ops = <<Create(p), Delete(p), Fired(p)>>) =>
            p \notin NoteKeys(file.notes)

\* no element occurs twice in s
NoDuplicate(s) == \A i, j \in DOMAIN s : i # j => s[i] # s[j]

\* C36: in every state of the file no backlinks list holds a path twice; after
\* a completed upsert or delete, stats.totalLinks is the sum of the lengths of
\* the notes' outlinks, in which a target linked several times counts each time.
C36_BacklinksOnce ==
    /\ \A t \in DOMAIN file.links : NoDuplicate(file.links[t].backlinks)
    /\ Quiescent =>
          file.stats.totalLinks = SumOver(file.notes, CountOutlinks, Len(file.notes))

\* a.md links to c.md twice and to itself: c.md has a.md as its one backlink,
\* and the three outlinks are counted
C36_Witness ==
    /\ Completed(Upsert("a.md"))
    /\ NoteKeys(file.notes) = {"a.md"}
    /\ NoteAt(file.notes, "a.md").outlinks = <<"c.md", "c.md", "a.md">>
    /\ file.links["c.md"].backlinks = <<"a.md">>
    /\ file.stats.totalLinks = 3

\* this step records a failed read or write, or a call of initDatabase
Faulted == fault' # fault

\* C21: when rebuildDatabase ends, every file of the vault other than the one
\* whose updateNote threw has a record in the file.
C21_RebuildIsolates ==
    [][(rpc # "idle" /\ rpc' = "idle") =>
          LET thrown == IF Faulted /\ rpc = "noteRead" THEN {Head(rq).path} ELSE {}
          IN (VaultPaths(vault) \ thrown) \subseteq NoteKeys(file'.notes)]_vars

\* C22: when a writeDb of updateNote or deleteNote throws, the file is the
\* document the operation found when it started.
C22_WriteFailureAtomic ==
    [][(Faulted /\ fault'.error = "EIO") => file' = round.base]_vars

\* C23: while the file is garbled, initDatabase leaves it as it is; updateNote,
\* deleteNote, updateTags and the poll callback throw the error of JSON.parse
\* and take no further step, so none of them writes; the only step of either
\* plugin that changes the file is the first write of rebuildDatabase, which
\* stores the cleared index document.
C23_GarbledStays ==
    [][file = Garbled =>
          /\ file' # file =>
                \/ rpc = "idle" /\ rpc' = "cleared" /\ file' = IndexDefault(now)
                \/ Faulted /\ fault'.op = "outside"
          /\ \A h \in Handlers : hpc'[h] # hpc[h] => (hpc'[h] = "idle" /\ Faulted)
          /\ bpc' = bpc
          /\ (Faulted /\ fault'.op \in {"updateNote", "deleteNote", "updateTags", "poll"}) =>
                (fault'.error = "SyntaxError" /\ file' = file)
          /\ (Faulted /\ fault'.op = "initDatabase") =>
                (fault'.error = "none" /\ file' = file)]_vars

\* readDb threw on the garbled file, then a rebuild that started on the garbled
\* file has completed and the file holds the index of the vault
C23_Witness ==
    /\ fault.found = "garbled"
    /\ fault.error = "SyntaxError"
    /\ rebuilt.count = 1
    /\ rebuilt.start = Garbled
    /\ Has(file, "notes")
    /\ NoteKeys(file.notes) = {"a.md"}
    /\ file = rebuilt.doc

\* C24: no operation that finds the file missing throws.
C24_MissingRecovered == fault.found = "missing" => fault.error = "none"

----------------------------------------------------------------------------
(* Properties of the query bridge *)

\* the dataviewQueries of a document, empty when it has none
Queries(doc) == OrElse(doc, "dataviewQueries", EmptyObj)

IsTerminal(entry) == Has(entry, "status") /\ entry.status \in {"success", "error"}

\* this step is one of poll callback p
PollStepOf(p) == bpc'[p] # bpc[p] \/ bq'[p] # bq[p]

\* this step ends a cycle of poll callback p
CycleEnds(p) == bpc[p] # "idle" /\ bpc'[p] = "idle"

\* C6: a poll cycle changes no entry whose status is success or error; such an
\* entry can only be deleted, by the purge, when it is not a control entry and
\* older than a day.
C6_TerminalStable ==
    [][\A p \in Pollers : PollStepOf(p) =>
          \A id \in DOMAIN Queries(file) :
             IsTerminal(Queries(file)[id]) =>
                IF Has(Queries(file'), id)
                THEN Queries(file')[id] = Queries(file)[id]
                ELSE /\ ~StartsWithUnderscore(id)
                     /\ Queries(file)[id].timestamp < now - OneDay
                     /\ bpc[p] = "exec"]_vars

\* a cycle that executed queries has completed and left alone an entry that
\* was completed before the cycle
C6_Witness ==
    \E p \in Pollers, id \in QueryIds :
        /\ cycle[p].kind = "execute"
        /\ Has(Queries(file), id)
        /\ IsTerminal(Queries(file)[id])
        /\ Queries(file)[id].timestamp < cycle[p].at

\* C7: after a poll cycle that starts with _check pending, the persisted
\* dataviewAvailable is the result of the probe made in the cycle and
\* lastChecked is the time of the probe.
C7_CheckPersistsProbe ==
    \A p \in Pollers :
        cycle[p].kind = "check" =>
            /\ Has(file, "dataviewAvailable")
            /\ file.dataviewAvailable = cycle[p].probe
            /\ file.lastChecked = cycle[p].probeAt

\* C8: _check is one-shot: a cycle that starts with _check pending ends with
\* _check absent from the file, and _check never has another status than pending.
C8_CheckOneShot ==
    [][/\ \A p \in Pollers :
            (CycleEnds(p) /\ cycle'[p].kind = "check") => ~Has(Queries(file'), "_check")
       /\ Has(Queries(file'), "_check") => IsPending(Queries(file'), "_check")]_vars

\* a cycle that handled _check has completed and _check is gone
C8_Witness ==
    \E p \in Pollers :
        /\ cycle[p].kind = "check"
        /\ Has(file, "dataviewQueries")
        /\ ~Has(Queries(file), "_check")

\* a completed entry that the clean-up is to remove at time t
Expired(queries, id, t) ==
    /\ ~StartsWithUnderscore(id)
    /\ IsTerminal(queries[id])
    /\ Has(queries[id], "timestamp")
    /\ queries[id].timestamp < t - OneDay

\* C9: after every poll cycle that does not handle a pending _check, no
\* completed non-control entry older than 24 hours remains in the file, also
\* when the cycle found no pending query.
C9_PurgeEveryCycle ==
    [][\A p \in Pollers :
          (CycleEnds(p) /\ cycle'[p].kind \in {"noPending", "unavailable", "execute"}) =>
             \A id \in DOMAIN Queries(file') : ~Expired(Queries(file'), id, now)]_vars

\* C10: in a cycle without pending _check and with Dataview unavailable, every
\* non-control entry that was pending when the cycle read the file is written
\* with status error, the message 'Dataview plugin not available' and the time
\* of the cycle as timestamp.
C10_UnavailableFailsAll ==
    [][\A p \in Pollers :
          (/\ bpc[p] = "read" /\ bpc'[p] # "read"
           /\ NoCheck(bdb[p])
           /\ ~IsAvailable(dataview)) =>
             \A id \in DOMAIN bdb[p].dataviewQueries :
                (~StartsWithUnderscore(id) /\ IsPending(bdb[p].dataviewQueries, id)) =>
                    /\ Has(Queries(file'), id)
                    /\ Queries(file')[id].status = "error"
                    /\ Queries(file')[id].error = "Dataview plugin not available"
                    /\ Queries(file')[id].timestamp = now]_vars

\* a cycle has completed with Dataview unavailable and both queries are failed
\* with the time of the cycle
C10_Witness ==
    \E p \in Pollers :
        /\ cycle[p].kind = "unavailable"
        /\ cycle[p].at > 0
        /\ \A id \in QueryIds :
              /\ Has(Queries(file), id)
              /\ Queries(file)[id].status = "error"
              /\ Queries(file)[id].error = "Dataview plugin not available"
              /\ Queries(file)[id].timestamp = cycle[p].at

\* what the file is to hold for a request after the engine produced `outcome`
Recorded(entry, outcome) ==
    /\ outcome = OkTable =>
          /\ entry.status = "success"
          /\ entry.result = [type |-> "table", headers |-> <<"File">>,
                             values |-> <<"a.md">>, columnTypes |-> <<>>]
    /\ outcome = OkList =>
          /\ entry.status = "success"
          /\ entry.result = [type |-> "list", headers |-> <<>>, values |-> <<"a.md">>]
    /\ outcome = Failed => entry.status = "error" /\ entry.error = "parse error"
    /\ outcome = FailedSilently => entry.status = "error" /\ entry.error = "Query failed"
    /\ outcome = Thrown => entry.status = "error" /\ entry.error = "Query execution failed"
    /\ outcome = ThrownTimeout => entry.status = "error" /\ entry.error = "timeout"

\* C11 as stated: when a cycle that executes queries ends, every request that
\* was pending in the file it read is in the file with the outcome of its
\* engine call.
C11_AllRecorded ==
    [][\A p \in Pollers :
          (CycleEnds(p) /\ cycle'[p].kind = "execute") =>
              \A id \in cycle'[p].pending :
                  /\ Has(cycle'[p].ran, id)
                  /\ Has(Queries(file'), id)
                  /\ Recorded(Queries(file')[id], cycle'[p].ran[id].outcome)]_vars

\* C11: when a cycle that executes queries ends, every request that was
\* pending in the file it read has been given to the engine, whatever the
\* other requests of the cycle produced, and is in the file with status
\* success and the engine's result or status error and the engine's message,
\* unless more than 24 hours passed between its recording and the end of the
\* cycle, in which case the clean-up of that cycle has removed it.
C11_RecordedOrExpired ==
    [][\A p \in Pollers :
          (CycleEnds(p) /\ cycle'[p].kind = "execute") =>
              \A id \in cycle'[p].pending :
                  /\ Has(cycle'[p].ran, id)
                  /\ IF cycle'[p].ran[id].at < now' - OneDay
                     THEN ~Has(Queries(file'), id)
                     ELSE /\ Has(Queries(file'), id)
                          /\ Recorded(Queries(file')[id], cycle'[p].ran[id].outcome)
                          /\ Queries(file')[id].timestamp = cycle'[p].ran[id].at]_vars

\* a cycle has ended in which one query failed and the other succeeded, and
\* the file holds the error of the one and the result of the other
C11_Witness ==
    \E p \in Pollers :
        /\ cycle[p].kind = "execute"
        /\ cycle[p].pending = {"q1", "q2"}
        /\ cycle[p].ran["q1"].outcome = Failed
        /\ cycle[p].ran["q2"].outcome = OkTable
        /\ Has(Queries(file), "q1") /\ Has(Queries(file), "q2")
        /\ Queries(file)["q1"].status = "error"
        /\ Queries(file)["q1"].error = "parse error"
        /\ Queries(file)["q2"].status = "success"
        /\ Queries(file)["q2"].result.type = "table"

\* C12: every non-control entry that is pending in the file eventually has
\* status success or error in the file, under a fair poll timer, engine calls
\* that return and at most one _check request.
C12_PendingCompleted ==
    \A id \in QueryIds :
        IsPending(Queries(file), id)
            ~> (Has(Queries(file), id) /\ IsTerminal(Queries(file)[id]))

\* the db object of poll callback p as it is when the clean-up starts, in the
\* step that ends a cycle which executed queries
BeforePurge(p) ==
    LET id == CHOOSE i \in bq[p] : TRUE
    IN Queries(ExecutedDb(bdb[p], id, cycle'[p].ran[id].outcome, now))

\* C13: a poll cycle removes no non-control entry whose status is pending: the
\* clean-up removes only entries that are completed when it removes them, and
\* the cycles that do not reach the clean-up remove no query entry at all; a
\* request that was pending with a timestamp older than 24 hours when the
\* cycle read it is in the file, completed, when the cycle ends.
C13_PendingNotPurged ==
    [][\A p \in Pollers :
          /\ (CycleEnds(p) /\ cycle'[p].kind = "execute") =>
                /\ \A id \in DOMAIN BeforePurge(p) \ DOMAIN Queries(file') :
                       IsTerminal(BeforePurge(p)[id])
                /\ \A id \in cycle'[p].stale :
                       /\ Has(cycle'[p].ran, id)
                       /\ cycle'[p].ran[id].at >= now' - OneDay =>
                             /\ Has(Queries(file'), id)
                             /\ IsTerminal(Queries(file')[id])
          /\ (CycleEnds(p) /\ cycle'[p].kind \in {"check", "unavailable"}) =>
                \A id \in DOMAIN Queries(bdb[p]) \ {"_check"} :
                    Has(Queries(file'), id)]_vars

\* a cycle has ended that found q1 pending with a timestamp older than 24
\* hours: q1 is in the file with its result, stamped with the present time
C13_Witness ==
    \E p \in Pollers :
        /\ cycle[p].kind = "execute"
        /\ cycle[p].stale = {"q1"}
        /\ cycle[p].pending = {"q1"}
        /\ file.dataviewQueries = Put(EmptyObj, "q1", ExecutedEntry([query |-> "LIST"], OkList, now))

\* the db object poll callback p writes from in its next write
Held(p) == IF bpc[p] = "checkRead" THEN cdb[p] ELSE bdb[p]

\* this step of poll callback p writes the file
PollWrites(p) == PollStepOf(p) /\ file' # file

\* C27: no entry whose id begins with an underscore is handed to dv.query, and
\* every control entry of the db object a poll cycle writes from is in the file
\* after the write exactly as it was read, whatever its status and however old
\* its timestamp; the one exception is a pending _check, which the cycle that
\* handles it deletes.
C27_ControlUntouched ==
    [][\A p \in Pollers : PollStepOf(p) =>
          /\ bq'[p] \subseteq QueryIds
          /\ DOMAIN cycle'[p].ran \subseteq QueryIds
          /\ PollWrites(p) =>
                \A id \in ControlIds \cap DOMAIN Queries(Held(p)) :
                   IF Has(Queries(file'), id)
                   THEN Queries(file')[id] = Queries(Held(p))[id]
                   ELSE id = "_check" /\ IsPending(Queries(Held(p)), "_check")]_vars

\* a cycle that read the control entry _keep, pending with a timestamp older
\* than a day, has executed q1 and run its clean-up; _keep is in the file as
\* it was submitted
C27_Witness ==
    \E p \in Pollers :
        /\ cycle[p].kind = "execute"
        /\ "_keep" \in cycle[p].control
        /\ Has(cycle[p].ran, "q1")
        /\ cycle[p].at > OneDay
        /\ Has(Queries(file), "q1") /\ IsTerminal(Queries(file)["q1"])
        /\ Has(Queries(file), "_keep")
        /\ Queries(file)["_keep"] = [query |-> "LIST", status |-> "pending", timestamp |-> 0]

\* C28: a cycle that starts with _check pending hands nothing to dv.query, and
\* each of its two writes leaves every non-control entry of the db object it
\* writes from as it was read: pending requests stay pending with the same
\* fields and completed entries older than a day are not removed.
C28_CheckOnly ==
    [][\A p \in Pollers : (PollStepOf(p) /\ cycle'[p].check) =>
          /\ bq'[p] = {}
          /\ cycle'[p].ran = EmptyObj
          /\ CycleEnds(p) => cycle'[p].kind = "check"
          /\ PollWrites(p) =>
                \A id \in QueryIds :
                   /\ Has(Queries(file'), id) = Has(Queries(Held(p)), id)
                   /\ Has(Queries(file'), id) =>
                         Queries(file')[id] = Queries(Held(p))[id]]_vars

\* a cycle found _check and the request q1 pending with Dataview ready; it has
\* ended, _check is gone and q1 is pending as before
C28_Witness ==
    \E p \in Pollers :
        /\ cycle[p].kind = "check"
        /\ cycle[p].check
        /\ cycle[p].pending = {"q1"}
        /\ bpc[p] = "idle"
        /\ dataview = "ready"
        /\ ~Has(Queries(file), "_check")
        /\ Has(Queries(file), "q1")
        /\ Queries(file)["q1"] = [query |-> "LIST", status |-> "pending"]

\* C29: a cycle that read a document without pending _check and without
\* pending request ends without a write: no step of it changes the file.
C29_NoWrite ==
    [][\A p \in Pollers :
          (PollStepOf(p) /\ ~cycle'[p].check /\ cycle'[p].pending = {}) =>
              /\ file' = file
              /\ bpc[p] # "idle" => cycle'[p].kind \in {"noPending", "noQueries"}]_vars

\* a cycle has ended for want of a pending entry although q1 is in the file,
\* completed more than a day ago, and Dataview is not available
C29_Witness ==
    \E p \in Pollers :
        /\ cycle[p].kind = "noPending"
        /\ bpc[p] = "idle"
        /\ ~cycle[p].check
        /\ dataview # "ready"
        /\ Has(Queries(file), "q1")
        /\ IsTerminal(Queries(file)["q1"])
        /\ Queries(file)["q1"].timestamp + OneDay < now

\* C30: a pending entry that a client put in the file after the read of a
\* poll cycle is in the file, pending or completed, after every write of that
\* cycle.
C30_ClientWriteKept ==
    [][\A p \in Pollers : PollWrites(p) =>
          \A id \in QueryIds :
             (IsPending(Queries(file), id) /\ ~Has(Queries(Held(p)), id)) =>
                 /\ Has(Queries(file'), id)
                 /\ Queries(file')[id].status \in {"pending", "success", "error"}]_vars

\* the part of the file the bridge owns
BridgeFields(doc) ==
    [queries |-> Queries(doc),
     available |-> OrElse(doc, "dataviewAvailable", "absent"),
     hasQueries |-> Has(doc, "dataviewQueries")]

\* the part of the file the index store owns
IndexFields(doc) ==
    [notes |-> doc.notes, tags |-> doc.tags, folders |-> doc.folders,
     links |-> doc.links, stats |-> doc.stats]

\* this step is one of an index store operation
IndexStepTaken == hpc' # hpc \/ rpc' # rpc

\* C14: no step of updateNote, deleteNote, updateTags or rebuildDatabase
\* changes the query entries or the availability flag, and no step of a poll
\* cycle or availability check changes notes, tags, folders, links or stats,
\* in any interleaving.
C14_Independent ==
    [][/\ IndexStepTaken => BridgeFields(file') = BridgeFields(file)
       /\ (\E p \in Pollers : PollStepOf(p)) => IndexFields(file') = IndexFields(file)]_vars

\* C38: a cycle that read pending requests and no pending _check goes by the
\* Dataview plugin as it is when the read returns, whatever dataviewAvailable
\* says in the document read: with the API present it starts executing all of
\* them and each is stored with the outcome dv.query had; without it, all of
\* them are stored with the error 'Dataview plugin not available'.
C38_ProbeDecides ==
    [][\A p \in Pollers :
          /\ (PollStepOf(p) /\ bpc[p] = "read" /\ ~cycle[p].check /\ cycle[p].pending # {}) =>
                IF dataview = "ready"
                THEN bpc'[p] = "exec" /\ bq'[p] = cycle[p].pending /\ file' = file
                ELSE /\ cycle'[p].kind = "unavailable"
                     /\ \A id \in cycle[p].pending :
                           /\ Queries(file')[id].status = "error"
                           /\ Queries(file')[id].error = "Dataview plugin not available"
          /\ (CycleEnds(p) /\ cycle'[p].kind = "execute") =>
                \A id \in cycle'[p].pending :
                   Has(Queries(file'), id) =>
                       Recorded(Queries(file')[id], cycle'[p].ran[id].outcome)]_vars

\* Dataview is ready while the file says dataviewAvailable: false; a cycle
\* has executed q1 and stored its result
C38_Witness ==
    \E p \in Pollers :
        /\ cycle[p].kind = "execute"
        /\ bpc[p] = "idle"
        /\ cycle[p].pending = {"q1"}
        /\ cycle[p].ran["q1"].outcome = OkList
        /\ file.dataviewAvailable = FALSE
        /\ Queries(file)["q1"].status = "success"

\* this step ends a cycle of poll callback p that completed requests
Completes(p) == CycleEnds(p) /\ cycle'[p].kind \in {"execute", "unavailable"}

\* C35 as stated: every request a cycle completes is in the file that cycle
\* writes, with status success or error.
C35_CompletedKept ==
    [][\A p \in Pollers : Completes(p) =>
          \A id \in cycle'[p].pending :
              /\ Has(Queries(file'), id)
              /\ IsTerminal(Queries(file')[id])]_vars

\* C35: a request completed by a cycle is stamped with the time at which its
\* own outcome is stored, not with one time for the cycle. In the unavailable
\* branch that is the time of the write, and the entry is in the file. After
\* executing, the entry is in the file the cycle writes, completed and with
\* that timestamp, unless the clean-up at the end of the cycle runs more than
\* 24 hours after the outcome was stored: then the same cycle removes it.
C35_StampedWhenStored ==
    [][\A p \in Pollers : Completes(p) =>
          \A id \in cycle'[p].pending :
              IF cycle'[p].kind = "execute" /\ cycle'[p].ran[id].at < now' - OneDay
              THEN ~Has(Queries(file'), id)
              ELSE /\ Has(Queries(file'), id)
                   /\ IsTerminal(Queries(file')[id])
                   /\ Has(Queries(file')[id], "timestamp")
                   /\ Queries(file')[id].timestamp =
                         IF cycle'[p].kind = "execute" THEN cycle'[p].ran[id].at ELSE now']_vars

\* a cycle stored the outcome of q1, went on with q2 for less than a day and
\* ended: q1 is in the file with the time its outcome was stored, which is
\* not the time of q2 nor of the end of the cycle
C35_Witness ==
    \E p \in Pollers :
        /\ cycle[p].kind = "execute"
        /\ bpc[p] = "idle"
        /\ cycle[p].pending = {"q1", "q2"}
        /\ cycle[p].ran["q1"].at < cycle[p].ran["q2"].at
        /\ cycle[p].ran["q2"].at = now
        /\ IsTerminal(Queries(file)["q1"])
        /\ Queries(file)["q1"].timestamp = cycle[p].ran["q1"].at
        /\ Queries(file)["q2"].timestamp = now

\* poll callback p is in its loop and has given, or is about to give, request
\* id to dv.query
Executes(p, id) == bpc[p] = "exec" /\ (id \in bq[p] \/ Has(cycle[p].ran, id))

\* C31: no request is in the loop of two poll callbacks at once.
C31_ExecutedOnce ==
    \A id \in QueryIds : Cardinality({p \in Pollers : Executes(p, id)}) <= 1

\* this step is one of the bridge: of a poll callback or of its timers
BridgeStepTaken == (\E p \in Pollers : PollStepOf(p)) \/ timers' # timers

\* C39: once close() has returned no poll cycle starts and no step of the
\* bridge changes the file.
C39_QuietAfterClose ==
    [][(timers.closed /\ BridgeStepTaken) =>
          /\ file' = file
          /\ \A p \in Pollers : bpc[p] = "idle" => bpc'[p] = "idle"]_vars

----------------------------------------------------------------------------
(* Properties of the two plugins on one file *)

\* C37: initDatabase of either plugin leaves a file that is present as it
\* is, and writes its default document when there is no file.
C37_InitKeeps ==
    [][(Faulted /\ fault'.op = "initDatabase") =>
          IF file = Missing
          THEN file' \in {IndexDefault(now), BridgeDefault(now)}
          ELSE file' = file]_vars

\* initDatabase has run on a file that was there: the note of the index and
\* a queued request are in the file
C37_Witness ==
    /\ fault.op = "initDatabase"
    /\ fault.found = "json"
    /\ Has(file, "notes")
    /\ NoteKeys(file.notes) = {"root/b.md"}
    /\ IsPending(Queries(file), "q1")

====
